---- MODULE Spec2Model ----
(***************************************************************************)
(* Model of the pack command's archive subsystem (package pack):           *)
(* walkFileTree, tarWalk, zipWalk and packDirectory.                       *)
(*                                                                         *)
(* A string is a sequence of one-character strings, a physical path is the *)
(* sequence of its components (always absolute and clean), the filesystem  *)
(* is a function from physical paths to nodes.  The recursion of           *)
(* iterDirectory is an explicit stack of frames, one per directory whose   *)
(* children are being iterated.                                            *)
(***************************************************************************)
EXTENDS Integers, Sequences, FiniteSets, TLC

VARIABLES
    fs,             \* the filesystem: physical path -> node
    includePath,    \* packDirectory's includePath: the roots, in order
    excludePrefix,  \* walkFileTree.excludePrefix
    excludeSuffix,  \* walkFileTree.excludeSuffix
    excludeRegexp,  \* walkFileTree.excludeRegexp
    fsym,           \* flag -fs
    ssym,           \* flag -ss
    format,         \* flag -f
    outputP,        \* the output file's physical path
    pc,             \* position of packDirectory
    p,              \* index of the root being walked (the range loop)
    prefix,         \* walkFileTree.prefix
    stack,          \* the active iterDirectory calls that are in their loop
    allFiles,       \* walkFileTree.allFiles
    archive,        \* the entries written to the archive, in order
    w,              \* the output file packDirectory opened, <<>> before
    err,            \* the error packDirectory returns
    runs,           \* the entry names of each earlier run of the command
    wak,            \* walkFileTree.wak: the backend packDirectory built
    ret,            \* what a direct call of wak.compress returned
    args,           \* the command line and what the environment will answer
    apc,            \* position of packApp
    trail           \* what packApp has done so far, in order

cfgVars == <<includePath, excludePrefix, excludeSuffix, excludeRegexp,
             fsym, ssym, format, outputP>>
\* What packDirectory and the walk never assign.
outer == <<cfgVars, ret, args, apc, trail>>
vars == <<fs, outer, pc, p, prefix, stack, allFiles, archive, w, err, runs, wak>>

----------------------------------------------------------------------------
(* Bounds *)

\* The number of symbolic links one path resolution may follow before the
\* operating system answers ELOOP.
MaxSymlinks == 2

\* The number of times the command is run on one file system.
MaxRuns == 2

\* The number of children of the root in the trees termination is checked
\* on.
MaxLinked == 2

----------------------------------------------------------------------------
(* Strings *)

\* The byte value of each character the model's names use.
Ord ==
    ("." :> 46) @@ ("/" :> 47) @@ ("a" :> 97) @@ ("c" :> 99) @@ ("d" :> 100)
    @@ ("g" :> 103) @@ ("h" :> 104) @@ ("i" :> 105) @@ ("l" :> 108)
    @@ ("o" :> 111) @@ ("p" :> 112) @@ ("r" :> 114) @@ ("t" :> 116)
    @@ ("x" :> 120) @@ ("z" :> 122)

\* strings.HasPrefix
HasPrefix(s, pre) ==
    /\ Len(pre) <= Len(s)
    /\ SubSeq(s, 1, Len(pre)) = pre

\* strings.HasSuffix
HasSuffix(s, suf) ==
    /\ Len(suf) <= Len(s)
    /\ SubSeq(s, Len(s) - Len(suf) + 1, Len(s)) = suf

\* Go's < on strings: bytewise lexicographic order.
StrLess(a, b) ==
    LET n == IF Len(a) < Len(b) THEN Len(a) ELSE Len(b)
    IN  \E i \in 1..(n + 1) :
            /\ \A j \in 1..(i - 1) : a[j] = b[j]
            /\ IF i <= n THEN Ord[a[i]] < Ord[b[i]]
                         ELSE Len(a) < Len(b)

\* regexp.MatchString for the patterns ^lit, lit$, ^lit$ and lit, lit a
\* literal: an unanchored pattern matches anywhere in the string.
MatchString(re, s) ==
    \E i \in 1..(Len(s) - Len(re.lit) + 1) :
        /\ SubSeq(s, i, i + Len(re.lit) - 1) = re.lit
        /\ re.bol => i = 1
        /\ re.eol => i + Len(re.lit) - 1 = Len(s)

\* A physical path as the string the program holds: /c1/c2/...
RECURSIVE PathStr(_)
PathStr(path) ==
    IF path = <<>> THEN <<>>
    ELSE PathStr(SubSeq(path, 1, Len(path) - 1)) \o <<"/">> \o path[Len(path)]

\* path.Join(fPath, name)
Join(fPath, name) == Append(fPath, name)

\* path.Base of a non-empty clean path
Base(path) == path[Len(path)]

\* path.Dir of a non-empty clean path
Dir(path) == SubSeq(path, 1, Len(path) - 1)

----------------------------------------------------------------------------
(* The operating system: nodes, path resolution, stat, readdir, readlink *)

DirNode == [kind |-> "dir", target |-> <<>>, ok |-> TRUE]
FileNode == [kind |-> "file", target |-> <<>>, ok |-> TRUE]
LinkNode(t) == [kind |-> "link", target |-> t, ok |-> TRUE]
\* a directory that cannot be listed, a file that cannot be opened, a link
\* that cannot be read (permission denied)
Denied(node) == [node EXCEPT !.ok = FALSE]

\* The nil os.FileInfo.
NilFileInfo == [name |-> <<>>, mode |-> "nil"]

\* The kernel's path walk.  cur is the resolved directory so far, rest the
\* components still to walk, hops the symbolic links followed so far;
\* followLast distinguishes stat from lstat.  The file system root <<>> is a
\* directory; link targets are absolute paths.
RECURSIVE Resolve(_, _, _, _, _)
Resolve(f, cur, rest, hops, followLast) ==
    IF rest = <<>> THEN [err |-> "nil", path |-> cur]
    ELSE LET nxt == Append(cur, Head(rest))
         IN  IF nxt \notin DOMAIN f THEN [err |-> "ENOENT", path |-> <<>>]
             ELSE IF f[nxt].kind = "link" /\ (Len(rest) > 1 \/ followLast)
             THEN IF hops >= MaxSymlinks
                  THEN [err |-> "ELOOP", path |-> <<>>]
                  ELSE Resolve(f, <<>>, f[nxt].target \o Tail(rest),
                               hops + 1, followLast)
             ELSE IF Len(rest) > 1 /\ f[nxt].kind # "dir"
             THEN [err |-> "ENOTDIR", path |-> <<>>]
             ELSE Resolve(f, nxt, Tail(rest), hops, followLast)

\* os.IsNotExist
IsNotExist(e) == e = "ENOENT"

\* os.Stat: follows symbolic links; the FileInfo's name is the base name of
\* the path asked for, its mode the mode of the node found.
Stat(f, path) ==
    LET r == Resolve(f, <<>>, path, 0, TRUE)
    IN  IF r.err # "nil" THEN [err |-> r.err, fi |-> NilFileInfo]
        ELSE [err |-> "nil",
              fi |-> [name |-> Base(path), mode |-> f[r.path].kind]]

\* The FileInfo Readdir returns for a child: lstat, no link is followed.
LstatInfo(f, real) == [name |-> Base(real), mode |-> f[real].kind]

\* The children of the directory a path resolves to.
Children(f, real) ==
    {k \in DOMAIN f : Len(k) = Len(real) + 1 /\ Dir(k) = real}

RECURSIVE Perms(_)
Perms(S) ==
    IF S = {} THEN {<<>>}
    ELSE UNION {{<<x>> \o q : q \in Perms(S \ {x})} : x \in S}

\* os.Open(dirname) followed by Readdir(-1): the outcomes the operating
\* system can produce.  The order of a directory listing is unspecified, so
\* every permutation of the children is an outcome.
Readdir(f, dirname) ==
    LET r == Resolve(f, <<>>, dirname, 0, TRUE)
    IN  IF r.err # "nil" THEN {[err |-> r.err, list |-> <<>>]}
        ELSE IF f[r.path].kind # "dir"
        THEN {[err |-> "ENOTDIR", list |-> <<>>]}
        ELSE IF ~f[r.path].ok THEN {[err |-> "EACCES", list |-> <<>>]}
        ELSE {[err |-> "nil", list |-> l] :
                 l \in Perms({LstatInfo(f, k) : k \in Children(f, r.path)})}

\* os.Open(fPath) of a file to be copied: the error, and the file whose
\* bytes are read.
OpenFile(f, fPath) ==
    LET r == Resolve(f, <<>>, fPath, 0, TRUE)
    IN  IF r.err # "nil" THEN r
        ELSE IF ~f[r.path].ok THEN [err |-> "EACCES", path |-> <<>>]
        ELSE r

\* os.Readlink(fPath)
Readlink(f, fPath) ==
    LET r == Resolve(f, <<>>, fPath, 0, FALSE)
    IN  IF r.err # "nil" THEN [err |-> r.err, link |-> <<>>]
        ELSE IF f[r.path].kind # "link" THEN [err |-> "EINVAL", link |-> <<>>]
        ELSE IF ~f[r.path].ok THEN [err |-> "EACCES", link |-> <<>>]
        ELSE [err |-> "nil", link |-> f[r.path].target]

----------------------------------------------------------------------------
(* walkFileTree *)

\* func (f byName) Less(i, j int) bool
byNameLess(a, b) == StrLess(a.name, b.name)

\* Faulty variant of SortByName: the comparison is reversed.
RECURSIVE SortByName_Descending(_)
SortByName_Descending(list) ==
    IF list = <<>> THEN <<>>
    ELSE LET x == list[Len(list)]
             rest == SortByName_Descending(SubSeq(list, 1, Len(list) - 1))
             k == Cardinality({i \in 1..Len(rest) : byNameLess(x, rest[i])})
         IN  SubSeq(rest, 1, k) \o <<x>> \o SubSeq(rest, k + 1, Len(rest))

\* sort.Sort(byName(list)): the names of one directory are distinct, so
\* every correct sort gives the same list; insertion sort computes it.
RECURSIVE SortByName(_)
SortByName(list) ==
    IF list = <<>> THEN <<>>
    ELSE LET x == list[Len(list)]
             rest == SortByName(SubSeq(list, 1, Len(list) - 1))
             k == Cardinality({i \in 1..Len(rest) : byNameLess(rest[i], x)})
         IN  SubSeq(rest, 1, k) \o <<x>> \o SubSeq(rest, k + 1, Len(rest))

\* Faulty variant of isExclude: the suffix rules are not consulted.
isExclude_NoSuffix(fPath) ==
    IF fPath = <<>> THEN TRUE
    ELSE IF \E i \in 1..Len(excludePrefix) : HasPrefix(fPath, excludePrefix[i])
    THEN TRUE
    ELSE FALSE

\* Faulty variant of isExclude: the empty name is passed on to the rules.
isExclude_EmptyPasses(fPath) ==
    IF \E i \in 1..Len(excludePrefix) : HasPrefix(fPath, excludePrefix[i])
    THEN TRUE
    ELSE IF \E i \in 1..Len(excludeSuffix) : HasSuffix(fPath, excludeSuffix[i])
    THEN TRUE
    ELSE FALSE

\* func (wft *walkFileTree) isExclude(fPath string) bool
isExclude(fPath) ==
    IF fPath = <<>> THEN TRUE
    ELSE IF \E i \in 1..Len(excludePrefix) : HasPrefix(fPath, excludePrefix[i])
    THEN TRUE
    ELSE IF \E i \in 1..Len(excludeSuffix) : HasSuffix(fPath, excludeSuffix[i])
    THEN TRUE
    ELSE FALSE

\* Faulty variant of isExcludeName: the loop starts after the first pattern.
isExcludeName_SkipsFirst(name) ==
    \E i \in 2..Len(excludeRegexp) : MatchString(excludeRegexp[i], name)

\* func (wft *walkFileTree) isExcludeName(name string) bool
isExcludeName(name) ==
    \E i \in 1..Len(excludeRegexp) : MatchString(excludeRegexp[i], name)

\* Faulty variant of virPathOf: the separator after the prefix is kept.
virPathOf_KeepSlash(pre, fPath) ==
    LET s == PathStr(fPath)
    IN  SubSeq(s, Len(PathStr(pre)) + 1, Len(s))

\* func (wft *walkFileTree) virPath(fPath string) string, for the prefix pre.
\* path.ToSlash changes nothing where the separator is the slash.
virPathOf(pre, fPath) ==
    LET s == PathStr(fPath)
        name == SubSeq(s, Len(PathStr(pre)) + 1, Len(s))
    IN  IF name = <<>> THEN <<>> ELSE Tail(name)

virPath(fPath) == virPathOf(prefix, fPath)

\* func (wft *walkFileTree) isEmpty(fPath string) bool.  The errors of Open
\* and Readdir are dropped: a directory that cannot be listed has no infos.
\* The loop returns false for the first child it does not skip, so its
\* result is the same for every order of the listing.
RECURSIVE isEmpty(_)
isEmpty(fPath) ==
    LET infos == (CHOOSE os \in Readdir(fs, fPath) : TRUE).list
        skipped(fi) ==
            LET fp == Join(fPath, fi.name)
            IN  IF isExclude(virPath(fp)) THEN TRUE
                ELSE IF isExcludeName(fi.name) THEN TRUE
                ELSE IF fi.mode = "link" THEN TRUE
                ELSE fi.mode = "dir" /\ isEmpty(fp)
    IN  \A n \in 1..Len(infos) : skipped(infos[n])

\* func (wft *walkFileTree) readDir(dirname string): os is the outcome of
\* Open and Readdir.
readDir(os) ==
    IF os.err # "nil" THEN [err |-> os.err, list |-> <<>>]
    ELSE [err |-> "nil", list |-> SortByName(os.list)]

----------------------------------------------------------------------------
(* The two backends *)

NoBody == [k |-> "none", of |-> <<>>]

\* Faulty variant of tarCompress: the content behind a link is copied too.
tarCompress_CopiesTarget(name, fPath, fi) ==
    LET isSym == fi.mode = "link"
        link == IF isSym THEN Readlink(fs, fPath).link ELSE <<>>
        hdr == [name |-> name, src |-> fPath, mode |-> fi.mode,
                link |-> link, body |-> [k |-> "none", of |-> <<>>]]
        fr == OpenFile(fs, fPath)
    IN  IF fr.err # "nil"
        THEN [added |-> FALSE, err |-> fr.err,
              written |-> <<[hdr EXCEPT !.body = [k |-> "missing", of |-> <<>>]]>>]
        ELSE [added |-> TRUE, err |-> "nil",
              written |-> <<[hdr EXCEPT !.body = [k |-> "data", of |-> fr.path]]>>]

\* func (wft *tarWalk) compress(name, fPath string, fi os.FileInfo).
\* The result carries the entries the call writes: the header is written
\* before the file is opened, so a failing call may leave an entry behind.
tarCompress(name, fPath, fi) ==
    LET isSym == fi.mode = "link"
        link == IF isSym THEN Readlink(fs, fPath).link ELSE <<>>
        hdr == [name |-> name, src |-> fPath, mode |-> fi.mode,
                link |-> link, body |-> NoBody]
        fr == OpenFile(fs, fPath)
    IN  IF ~isSym
        THEN IF fr.err # "nil"
             THEN [added |-> FALSE, err |-> fr.err,
                   written |-> <<[hdr EXCEPT !.body = [k |-> "missing", of |-> <<>>]]>>]
             ELSE [added |-> TRUE, err |-> "nil",
                   written |-> <<[hdr EXCEPT !.body = [k |-> "data", of |-> fr.path]]>>]
        ELSE [added |-> TRUE, err |-> "nil", written |-> <<hdr>>]

\* func (wft *zipWalk) compress(name, fPath string, fi os.FileInfo)
zipCompress(name, fPath, fi) ==
    LET isSym == fi.mode = "link"
        hdr == [name |-> name, src |-> fPath, mode |-> fi.mode,
                link |-> <<>>, body |-> NoBody]
        fr == OpenFile(fs, fPath)
        rl == Readlink(fs, fPath)
    IN  IF ~isSym
        THEN IF fr.err # "nil"
             THEN [added |-> FALSE, err |-> fr.err,
                   written |-> <<[hdr EXCEPT !.body = [k |-> "missing", of |-> <<>>]]>>]
             ELSE [added |-> TRUE, err |-> "nil",
                   written |-> <<[hdr EXCEPT !.body = [k |-> "data", of |-> fr.path]]>>]
        ELSE IF rl.err # "nil"
             THEN [added |-> FALSE, err |-> rl.err, written |-> <<hdr>>]
             ELSE [added |-> TRUE, err |-> "nil",
                   written |-> <<[hdr EXCEPT !.body = [k |-> "text", of |-> rl.link]]>>]

\* No direct call of compress has been made.
NoCall == [called |-> FALSE, added |-> FALSE, err |-> "nil"]

\* wft.wak.compress: the backend packDirectory chose.
compress(name, fPath, fi) ==
    IF wak = "zipWalk" THEN zipCompress(name, fPath, fi)
    ELSE tarCompress(name, fPath, fi)

----------------------------------------------------------------------------
(* The walk *)

\* Faulty variant of walkLeaf: allFiles is not consulted before compress.
walkLeaf_NoCheck(fPath, fi, e) ==
    LET same == [err |-> "nil", allFiles |-> allFiles, archive |-> archive]
        name == virPath(fPath)
        c == compress(name, fPath, fi)
    IN  IF e # "nil" THEN [same EXCEPT !.err = e]
        ELSE IF fPath = outputP THEN same
        ELSE IF fi.mode = "dir" THEN same
        ELSE IF ssym /\ fi.mode = "link" THEN same
        ELSE IF c.added
        THEN [err |-> c.err, allFiles |-> allFiles \cup {name},
              archive |-> archive \o c.written]
        ELSE [err |-> c.err, allFiles |-> allFiles,
              archive |-> archive \o c.written]

\* Faulty variant of walkLeaf: the name written is not put into allFiles.
walkLeaf_NoInsert(fPath, fi, e) ==
    LET same == [err |-> "nil", allFiles |-> allFiles, archive |-> archive]
        name == virPath(fPath)
        c == compress(name, fPath, fi)
    IN  IF e # "nil" THEN [same EXCEPT !.err = e]
        ELSE IF fPath = outputP THEN same
        ELSE IF fi.mode = "dir" THEN same
        ELSE IF ssym /\ fi.mode = "link" THEN same
        ELSE IF name \in allFiles THEN same
        ELSE [err |-> c.err, allFiles |-> allFiles,
              archive |-> archive \o c.written]

\* Faulty variant of walkLeaf: a name already written is an error.
walkLeaf_DupIsError(fPath, fi, e) ==
    LET same == [err |-> "nil", allFiles |-> allFiles, archive |-> archive]
        name == virPath(fPath)
        c == compress(name, fPath, fi)
    IN  IF e # "nil" THEN [same EXCEPT !.err = e]
        ELSE IF fPath = outputP THEN same
        ELSE IF fi.mode = "dir" THEN same
        ELSE IF ssym /\ fi.mode = "link" THEN same
        ELSE IF name \in allFiles THEN [same EXCEPT !.err = "EEXIST"]
        ELSE IF c.added
        THEN [err |-> c.err, allFiles |-> allFiles \cup {name},
              archive |-> archive \o c.written]
        ELSE [err |-> c.err, allFiles |-> allFiles,
              archive |-> archive \o c.written]

\* Faulty variant of walkLeaf: a directory is handed to compress like a file.
walkLeaf_NoDirCheck(fPath, fi, e) ==
    LET same == [err |-> "nil", allFiles |-> allFiles, archive |-> archive]
        name == virPath(fPath)
        c == compress(name, fPath, fi)
    IN  IF e # "nil" THEN [same EXCEPT !.err = e]
        ELSE IF fPath = outputP THEN same
        ELSE IF ssym /\ fi.mode = "link" THEN same
        ELSE IF name \in allFiles THEN same
        ELSE IF c.added
        THEN [err |-> c.err, allFiles |-> allFiles \cup {name},
              archive |-> archive \o c.written]
        ELSE [err |-> c.err, allFiles |-> allFiles,
              archive |-> archive \o c.written]

\* func (wft *walkFileTree) walkLeaf(fPath string, fi os.FileInfo, err error):
\* the error returned, and allFiles and the archive after the call.
walkLeaf(fPath, fi, e) ==
    LET same == [err |-> "nil", allFiles |-> allFiles, archive |-> archive]
        name == virPath(fPath)
        c == compress(name, fPath, fi)
    IN  IF e # "nil" THEN [same EXCEPT !.err = e]
        ELSE IF fPath = outputP THEN same
        ELSE IF fi.mode = "dir" THEN same
        ELSE IF ssym /\ fi.mode = "link" THEN same
        ELSE IF name \in allFiles THEN same
        ELSE IF c.added
        THEN [err |-> c.err, allFiles |-> allFiles \cup {name},
              archive |-> archive \o c.written]
        ELSE [err |-> c.err, allFiles |-> allFiles,
              archive |-> archive \o c.written]

\* Faulty variant of iterDirectory: a link is never stat'ed through.
iterDirectory_NoFollow(fPath, fi, os) ==
    LET relPath == virPath(fPath)
        same == [ret |-> "nil", err |-> "nil", allFiles |-> allFiles,
                 archive |-> archive, list |-> <<>>]
        wl == walkLeaf(fPath, fi, "nil")
        rd == readDir(os)
        after == [same EXCEPT !.allFiles = wl.allFiles, !.archive = wl.archive]
    IN  IF Len(relPath) > 0 /\ isExcludeName(fi.name) THEN same
        ELSE IF Len(relPath) > 0 /\ isExclude(relPath) THEN same
        ELSE IF wl.err # "nil"
        THEN IF fi.mode = "dir" /\ wl.err = "SkipDir" THEN after
             ELSE [after EXCEPT !.ret = "err", !.err = wl.err]
        ELSE IF fi.mode # "dir" THEN after
        ELSE IF rd.err # "nil"
        THEN [after EXCEPT !.ret = "err", !.err = walkLeaf(fPath, fi, rd.err).err]
        ELSE [after EXCEPT !.ret = "loop", !.list = rd.list]

\* Faulty variant of iterDirectory: an excluded directory is not written
\* but its children are still iterated.
iterDirectory_EntersExcluded(fPath, fi0, os) ==
    LET doFSym == fsym /\ fi0.mode = "link"
        st == Stat(fs, fPath)
        fi == IF doFSym THEN st.fi ELSE fi0
        relPath == virPath(fPath)
        same == [ret |-> "nil", err |-> "nil", allFiles |-> allFiles,
                 archive |-> archive, list |-> <<>>]
        wl == walkLeaf(fPath, fi, "nil")
        rd == readDir(os)
        after == [same EXCEPT !.allFiles = wl.allFiles, !.archive = wl.archive]
        excluded == isExcludeName(fi.name) \/ isExclude(relPath)
    IN  IF doFSym /\ IsNotExist(st.err) THEN same
        ELSE IF Len(relPath) > 0 /\ fi = NilFileInfo
        THEN [same EXCEPT !.ret = "panic"]
        ELSE IF Len(relPath) > 0 /\ excluded /\ fi.mode # "dir" THEN same
        ELSE IF Len(relPath) > 0 /\ excluded /\ rd.err # "nil" THEN same
        ELSE IF Len(relPath) > 0 /\ excluded
        THEN [same EXCEPT !.ret = "loop", !.list = rd.list]
        ELSE IF wl.err # "nil"
        THEN IF fi.mode = "dir" /\ wl.err = "SkipDir" THEN after
             ELSE [after EXCEPT !.ret = "err", !.err = wl.err]
        ELSE IF fi.mode # "dir" THEN after
        ELSE IF rd.err # "nil"
        THEN [after EXCEPT !.ret = "err", !.err = walkLeaf(fPath, fi, rd.err).err]
        ELSE [after EXCEPT !.ret = "loop", !.list = rd.list]

\* Faulty variant of iterDirectory: a link whose target does not exist is an
\* error of the walk.
iterDirectory_MissingIsError(fPath, fi0, os) ==
    LET doFSym == fsym /\ fi0.mode = "link"
        st == Stat(fs, fPath)
        fi == IF doFSym THEN st.fi ELSE fi0
        relPath == virPath(fPath)
        same == [ret |-> "nil", err |-> "nil", allFiles |-> allFiles,
                 archive |-> archive, list |-> <<>>]
        wl == walkLeaf(fPath, fi, "nil")
        rd == readDir(os)
        after == [same EXCEPT !.allFiles = wl.allFiles, !.archive = wl.archive]
    IN  IF doFSym /\ IsNotExist(st.err)
        THEN [same EXCEPT !.ret = "err", !.err = st.err]
        ELSE IF Len(relPath) > 0 /\ fi = NilFileInfo
        THEN [same EXCEPT !.ret = "panic"]
        ELSE IF Len(relPath) > 0 /\ isExcludeName(fi.name) THEN same
        ELSE IF Len(relPath) > 0 /\ isExclude(relPath) THEN same
        ELSE IF wl.err # "nil"
        THEN IF fi.mode = "dir" /\ wl.err = "SkipDir" THEN after
             ELSE [after EXCEPT !.ret = "err", !.err = wl.err]
        ELSE IF fi.mode # "dir" THEN after
        ELSE IF rd.err # "nil"
        THEN [after EXCEPT !.ret = "err", !.err = walkLeaf(fPath, fi, rd.err).err]
        ELSE [after EXCEPT !.ret = "loop", !.list = rd.list]

\* Faulty variant of iterDirectory: for a followed link the exclusion rules
\* are applied to the path and the name of the link's target.
iterDirectory_TargetRules(fPath, fi0, os) ==
    LET doFSym == fsym /\ fi0.mode = "link"
        st == Stat(fs, fPath)
        fi == IF doFSym THEN st.fi ELSE fi0
        real == Resolve(fs, <<>>, fPath, 0, TRUE).path
        relPath == virPath(fPath)
        same == [ret |-> "nil", err |-> "nil", allFiles |-> allFiles,
                 archive |-> archive, list |-> <<>>]
        wl == walkLeaf(fPath, fi, "nil")
        rd == readDir(os)
        after == [same EXCEPT !.allFiles = wl.allFiles, !.archive = wl.archive]
    IN  IF doFSym /\ IsNotExist(st.err) THEN same
        ELSE IF Len(relPath) > 0 /\ fi = NilFileInfo
        THEN [same EXCEPT !.ret = "panic"]
        ELSE IF Len(relPath) > 0 /\ doFSym /\ isExcludeName(Base(real))
        THEN same
        ELSE IF Len(relPath) > 0 /\ doFSym /\ isExclude(virPath(real))
        THEN same
        ELSE IF Len(relPath) > 0 /\ ~doFSym /\ isExcludeName(fi.name)
        THEN same
        ELSE IF Len(relPath) > 0 /\ ~doFSym /\ isExclude(relPath) THEN same
        ELSE IF wl.err # "nil"
        THEN IF fi.mode = "dir" /\ wl.err = "SkipDir" THEN after
             ELSE [after EXCEPT !.ret = "err", !.err = wl.err]
        ELSE IF fi.mode # "dir" THEN after
        ELSE IF rd.err # "nil"
        THEN [after EXCEPT !.ret = "err", !.err = walkLeaf(fPath, fi, rd.err).err]
        ELSE [after EXCEPT !.ret = "loop", !.list = rd.list]

\* Faulty variant of iterDirectory: a link is stat'ed through whatever the
\* follow-symlinks flag says.
iterDirectory_AlwaysFollows(fPath, fi0, os) ==
    LET doFSym == fi0.mode = "link"
        st == Stat(fs, fPath)
        fi == IF doFSym THEN st.fi ELSE fi0
        relPath == virPath(fPath)
        same == [ret |-> "nil", err |-> "nil", allFiles |-> allFiles,
                 archive |-> archive, list |-> <<>>]
        wl == walkLeaf(fPath, fi, "nil")
        rd == readDir(os)
        after == [same EXCEPT !.allFiles = wl.allFiles, !.archive = wl.archive]
    IN  IF doFSym /\ IsNotExist(st.err) THEN same
        ELSE IF Len(relPath) > 0 /\ fi = NilFileInfo
        THEN [same EXCEPT !.ret = "panic"]
        ELSE IF Len(relPath) > 0 /\ isExcludeName(fi.name) THEN same
        ELSE IF Len(relPath) > 0 /\ isExclude(relPath) THEN same
        ELSE IF wl.err # "nil"
        THEN IF fi.mode = "dir" /\ wl.err = "SkipDir" THEN after
             ELSE [after EXCEPT !.ret = "err", !.err = wl.err]
        ELSE IF fi.mode # "dir" THEN after
        ELSE IF rd.err # "nil"
        THEN [after EXCEPT !.ret = "err", !.err = walkLeaf(fPath, fi, rd.err).err]
        ELSE [after EXCEPT !.ret = "loop", !.list = rd.list]

\* Faulty variant of iterDirectory: the exclusion rules are applied to the
\* root as well.
iterDirectory_RootToo(fPath, fi0, os) ==
    LET doFSym == fsym /\ fi0.mode = "link"
        st == Stat(fs, fPath)
        fi == IF doFSym THEN st.fi ELSE fi0
        relPath == virPath(fPath)
        same == [ret |-> "nil", err |-> "nil", allFiles |-> allFiles,
                 archive |-> archive, list |-> <<>>]
        wl == walkLeaf(fPath, fi, "nil")
        rd == readDir(os)
        after == [same EXCEPT !.allFiles = wl.allFiles, !.archive = wl.archive]
    IN  IF doFSym /\ IsNotExist(st.err) THEN same
        ELSE IF fi = NilFileInfo
        THEN [same EXCEPT !.ret = "panic"]
        ELSE IF isExcludeName(fi.name) THEN same
        ELSE IF isExclude(relPath) THEN same
        ELSE IF wl.err # "nil"
        THEN IF fi.mode = "dir" /\ wl.err = "SkipDir" THEN after
             ELSE [after EXCEPT !.ret = "err", !.err = wl.err]
        ELSE IF fi.mode # "dir" THEN after
        ELSE IF rd.err # "nil"
        THEN [after EXCEPT !.ret = "err", !.err = walkLeaf(fPath, fi, rd.err).err]
        ELSE [after EXCEPT !.ret = "loop", !.list = rd.list]

\* func (wft *walkFileTree) iterDirectory(fPath string, fi os.FileInfo), up
\* to its loop over the children.  os is what Open and Readdir answer if the
\* call gets as far as readDir.  ret is "nil" or "err" when the call returns
\* before the loop, "panic" when it dereferences the nil FileInfo, "loop"
\* when it enters the loop over list.
iterDirectory(fPath, fi0, os) ==
    LET doFSym == fsym /\ fi0.mode = "link"
        st == Stat(fs, fPath)
        fi == IF doFSym THEN st.fi ELSE fi0
        relPath == virPath(fPath)
        same == [ret |-> "nil", err |-> "nil", allFiles |-> allFiles,
                 archive |-> archive, list |-> <<>>]
        wl == walkLeaf(fPath, fi, "nil")
        rd == readDir(os)
        after == [same EXCEPT !.allFiles = wl.allFiles, !.archive = wl.archive]
    IN  IF doFSym /\ IsNotExist(st.err) THEN same
        ELSE IF Len(relPath) > 0 /\ fi = NilFileInfo
        THEN [same EXCEPT !.ret = "panic"]
        ELSE IF Len(relPath) > 0 /\ isExcludeName(fi.name) THEN same
        ELSE IF Len(relPath) > 0 /\ isExclude(relPath) THEN same
        ELSE IF wl.err # "nil"
        THEN IF fi.mode = "dir" /\ wl.err = "SkipDir" THEN after
             ELSE [after EXCEPT !.ret = "err", !.err = wl.err]
        ELSE IF fi.mode # "dir" THEN after
        ELSE IF rd.err # "nil"
        THEN [after EXCEPT !.ret = "err", !.err = walkLeaf(fPath, fi, rd.err).err]
        ELSE [after EXCEPT !.ret = "loop", !.list = rd.list]

----------------------------------------------------------------------------
(* The inputs: directory trees, rule sets, flags *)

tmpdir == <<<<"t">>>>           \* a build directory, /t
thePath == <<<<"p">>>>          \* an application directory, /p
outside == <<<<"o">>>>          \* a directory outside both roots, /o
missing == <<<<"x">>>>          \* a path where nothing exists

nR == <<"r">>
nGo == <<"a", ".", "g", "o">>
nDotG == <<".", "g">>
nC == <<"c">>
nD == <<"d">>
nX == <<"x">>
nDotH == <<".", "h">>
nL == <<"l">>
nA == <<"a">>

zip == <<"z", "i", "p">>
targz == <<"t", "a", "r", ".", "g", "z">>

\* The function with the given set of <<path, node>> pairs as its graph.
Tree(pairs) ==
    [k \in {e[1] : e \in pairs} |-> (CHOOSE e \in pairs : e[1] = k)[2]]

\* What the application directory can hold: r; a.go; .g/c; d/x and d/.h;
\* the link l.
AppR ==
    {{}, {<<Join(thePath, nR), FileNode>>},
         {<<Join(thePath, nR), Denied(FileNode)>>}}
AppGo == {{}, {<<Join(thePath, nGo), FileNode>>}}
AppDotG ==
    {{}, {<<Join(thePath, nDotG), DirNode>>,
          <<Join(Join(thePath, nDotG), nC), FileNode>>}}
AppD ==
    LET d == Join(thePath, nD)
    IN  {{},
         {<<d, DirNode>>, <<Join(d, nX), FileNode>>},
         {<<d, DirNode>>, <<Join(d, nX), FileNode>>, <<Join(d, nDotH), FileNode>>},
         {<<d, Denied(DirNode)>>, <<Join(d, nX), FileNode>>}}
LinkTargets ==
    {Join(thePath, nD), Join(thePath, nR), thePath, missing,
     Join(thePath, nL), Join(thePath, nDotG)}
AppL ==
    {{}} \cup {{<<Join(thePath, nL), LinkNode(t)>>} : t \in LinkTargets}
         \cup {{<<Join(thePath, nL), Denied(LinkNode(Join(thePath, nR)))>>}}

\* What the build directory can be: absent; holding a; a and r; a and d/x.
BuildTrees ==
    LET d == Join(tmpdir, nD)
        a == <<Join(tmpdir, nA), FileNode>>
    IN  {{},
         {<<tmpdir, DirNode>>, a},
         {<<tmpdir, DirNode>>, a, <<Join(tmpdir, nR), FileNode>>},
         {<<tmpdir, DirNode>>, a, <<d, DirNode>>, <<Join(d, nX), FileNode>>}}

\* The build directory as the pack command leaves it: the binary alone.
BuiltOnly == {<<tmpdir, DirNode>>, <<Join(tmpdir, nA), FileNode>>}

\* The application trees built from the given choices for r, a.go, .g, d, l.
AppTrees(rs, gs, dgs, ds, ls) ==
    {r \cup g \cup dg \cup d \cup l :
        r \in rs, g \in gs, dg \in dgs, d \in ds, l \in ls}

\* The choices that hold no denied node.
Granted(choices) == {c \in choices : \A e \in c : e[2].ok}

\* The inputs packDirectory is run on, in three families:
\*   Plain     one root, no link, the output file inside or outside the root;
\*   TwoRoots  the build directory and the application directory, in either
\*             order, the build directory possibly missing;
\*   Links     one root that holds the link l, under every setting of the
\*             two symlink flags, the output file outside the root or in
\*             its directory d.
Inputs ==
    LET always == {<<thePath, DirNode>>, <<outside, DirNode>>}
        Plain ==
            {[fs |-> Tree(always \cup BuiltOnly \cup a),
              includePath |-> <<thePath>>,
              fsym |-> FALSE, ssym |-> FALSE, outDir |-> o] :
                a \in AppTrees(AppR, AppGo, AppDotG, AppD, {{}}),
                o \in {outside, thePath}}
        TwoRoots ==
            {[fs |-> Tree(always \cup b \cup a),
              includePath |-> i,
              fsym |-> FALSE, ssym |-> FALSE, outDir |-> outside] :
                a \in AppTrees(AppR, AppGo, {{}}, Granted(AppD), {{}}),
                b \in BuildTrees,
                i \in {<<tmpdir, thePath>>, <<thePath, tmpdir>>}}
        Links ==
            {[fs |-> Tree(always \cup BuiltOnly \cup a),
              includePath |-> <<thePath>>,
              fsym |-> f, ssym |-> s, outDir |-> o] :
                a \in AppTrees(Granted(AppR), {{}}, AppDotG, Granted(AppD),
                               AppL \ {{}}),
                f \in BOOLEAN, s \in BOOLEAN,
                o \in {outside, Join(thePath, nD)}}
    IN  Plain \cup TwoRoots \cup Links

\* The regular expressions ^x and ^p$; the second matches the base name of
\* the application directory.
Regexps ==
    {<<>>, <<[lit |-> <<"x">>, bol |-> TRUE, eol |-> FALSE]>>,
     <<[lit |-> <<"p">>, bol |-> TRUE, eol |-> TRUE]>>}

\* The regular expression ^l, which matches the name of the link l; it is
\* among the rules when links are followed.
LinkRegexp == <<[lit |-> <<"l">>, bol |-> TRUE, eol |-> FALSE]>>

Init ==
    /\ \E in \in Inputs :
          /\ fs = in.fs
          /\ includePath = in.includePath
          /\ fsym = in.fsym
          /\ ssym = in.ssym
          /\ format \in {zip, targz}
          /\ outputP = Join(in.outDir, <<"p", ".">> \o format)
    /\ excludePrefix \in {<<>>, <<<<".">>>>}
    /\ excludeSuffix \in {<<>>, <<<<".", "g", "o">>, <<".", "g">>>>}
    /\ excludeRegexp \in Regexps \cup (IF fsym THEN {LinkRegexp} ELSE {})
    /\ pc = "open"
    /\ p = 1
    /\ prefix = <<>>
    /\ stack = <<>>
    /\ allFiles = {}
    /\ archive = <<>>
    /\ w = <<>>
    /\ err = "nil"
    /\ runs = <<>>
    /\ wak = "nil"
    /\ ret = NoCall
    /\ args = [f |-> format]
    /\ apc = "packDirectory"
    /\ trail = <<>>

----------------------------------------------------------------------------
(* packDirectory *)

\* Faulty variant of CreateTrunc: the file is opened with O_EXCL, so a file
\* that an earlier run left makes the open fail.
CreateTrunc_Excl(f, path) ==
    LET d == Resolve(f, <<>>, Dir(path), 0, TRUE)
        real == Join(d.path, Base(path))
    IN  IF d.err # "nil" THEN [err |-> d.err, fs |-> f, path |-> <<>>]
        ELSE IF f[d.path].kind # "dir"
        THEN [err |-> "ENOTDIR", fs |-> f, path |-> <<>>]
        ELSE IF real \notin DOMAIN f
        THEN [err |-> "nil", fs |-> (real :> FileNode) @@ f, path |-> real]
        ELSE [err |-> "EEXIST", fs |-> f, path |-> <<>>]

\* os.OpenFile(outputP, os.O_CREATE|os.O_WRONLY|os.O_TRUNC, 0644): the error,
\* and the file system afterwards.
CreateTrunc(f, path) ==
    LET d == Resolve(f, <<>>, Dir(path), 0, TRUE)
        real == Join(d.path, Base(path))
    IN  IF d.err # "nil" THEN [err |-> d.err, fs |-> f, path |-> <<>>]
        ELSE IF f[d.path].kind # "dir"
        THEN [err |-> "ENOTDIR", fs |-> f, path |-> <<>>]
        ELSE IF real \notin DOMAIN f
        THEN [err |-> "nil", fs |-> (real :> FileNode) @@ f, path |-> real]
        ELSE IF f[real].kind = "file"
        THEN [err |-> "nil", fs |-> f, path |-> real]
        ELSE [err |-> "EISDIR", fs |-> f, path |-> <<>>]

\* packDirectory up to its loop: open the output file, build the backend.
OpenOutput ==
    /\ pc = "open"
    /\ LET o == CreateTrunc(fs, outputP)
       IN  IF o.err # "nil"
           THEN /\ pc' = "returned"
                /\ err' = o.err
                /\ UNCHANGED <<fs, w, wak>>
           ELSE /\ pc' = "roots"
                /\ fs' = o.fs
                /\ w' = o.path
                /\ err' = "nil"
                /\ wak' = IF format = <<"z", "i", "p">> THEN "zipWalk"
                          ELSE "tarWalk"
    /\ allFiles' = {}
    /\ UNCHANGED <<outer, p, prefix, stack, archive, runs>>

\* Faulty variant of WalkRoot: the set of written names is emptied for each
\* root.
WalkRoot_Resets ==
    /\ pc = "roots"
    /\ p <= Len(includePath)
    /\ prefix' = includePath[p]
    /\ allFiles' = {}
    /\ LET st == Stat(fs, includePath[p])
       IN  IF st.err # "nil"
           THEN pc' = "returned" /\ err' = st.err
           ELSE pc' = "root" /\ err' = "nil"
    /\ UNCHANGED <<fs, outer, p, stack, archive, w, runs, wak>>

\* The loop of packDirectory calls walkRoot, which sets the prefix and
\* stats the root.
WalkRoot ==
    /\ pc = "roots"
    /\ p <= Len(includePath)
    /\ prefix' = includePath[p]
    /\ LET st == Stat(fs, includePath[p])
       IN  IF st.err # "nil"
           THEN pc' = "returned" /\ err' = st.err
           ELSE pc' = "root" /\ err' = "nil"
    /\ UNCHANGED <<fs, outer, p, stack, allFiles, archive, w, runs, wak>>

\* The loop of packDirectory ends: packDirectory returns nil.
PackReturn ==
    /\ pc = "roots"
    /\ p > Len(includePath)
    /\ pc' = "returned"
    /\ UNCHANGED <<fs, outer, p, prefix, stack, allFiles, archive, w, err,
                   runs, wak>>

\* Faulty variant of Propagate: the loop goes on to the next child whatever
\* the error of a child.
Propagate_GoesOn(st, e) ==
    IF st = <<>> THEN [stack |-> <<>>, err |-> e]
    ELSE [stack |-> [st EXCEPT ![Len(st)].i = @ + 1], err |-> "nil"]

\* A child call of the top frame returned the error e: each loop returns it
\* to its caller unless it is SkipDir from a directory.
RECURSIVE Propagate(_, _)
Propagate(st, e) ==
    IF st = <<>> THEN [stack |-> <<>>, err |-> e]
    ELSE LET f == st[Len(st)]
             fileInfo == f.list[f.i]
         IN  IF fileInfo.mode # "dir" \/ e # "SkipDir"
             THEN Propagate(SubSeq(st, 1, Len(st) - 1), e)
             ELSE [stack |-> [st EXCEPT ![Len(st)].i = @ + 1], err |-> "nil"]

\* The state after iterDirectory(fPath, fi) has run up to its loop, called
\* from the frames st.
Entered(st, fPath, r) ==
    /\ allFiles' = r.allFiles
    /\ archive' = r.archive
    /\ CASE r.ret = "loop" ->
              /\ stack' = Append(st, [fPath |-> fPath, list |-> r.list, i |-> 1])
              /\ pc' = "walk"
              /\ UNCHANGED <<p, err>>
         [] r.ret = "panic" ->
              /\ pc' = "panic"
              /\ UNCHANGED <<p, stack, err>>
         [] r.ret = "nil" /\ st = <<>> ->
              /\ pc' = "roots"
              /\ p' = p + 1
              /\ UNCHANGED <<stack, err>>
         [] r.ret = "nil" /\ st # <<>> ->
              /\ stack' = [st EXCEPT ![Len(st)].i = @ + 1]
              /\ UNCHANGED <<pc, p, err>>
         [] r.ret = "err" ->
              LET u == Propagate(st, r.err)
              IN  /\ stack' = u.stack
                  /\ IF u.stack = <<>>
                     THEN pc' = "returned" /\ err' = u.err
                     ELSE UNCHANGED <<pc, err>>
                  /\ UNCHANGED p

\* walkRoot calls iterDirectory on the root.
IterRoot ==
    /\ pc = "root"
    /\ \E os \in Readdir(fs, includePath[p]) :
          Entered(<<>>, includePath[p],
                  iterDirectory(includePath[p], Stat(fs, includePath[p]).fi, os))
    /\ UNCHANGED <<fs, outer, prefix, w, runs, wak>>

\* One turn of the loop of iterDirectory: the call on the next child.
IterChild ==
    /\ pc = "walk"
    /\ LET f == stack[Len(stack)]
       IN  /\ f.i <= Len(f.list)
           /\ LET fileInfo == f.list[f.i]
                  child == Join(f.fPath, fileInfo.name)
              IN  \E os \in Readdir(fs, child) :
                     Entered(stack, child, iterDirectory(child, fileInfo, os))
    /\ UNCHANGED <<fs, outer, prefix, w, runs, wak>>

\* Faulty variant of IterReturn: packDirectory's loop does not move on to
\* the next root.
IterReturn_SameRoot ==
    /\ pc = "walk"
    /\ LET f == stack[Len(stack)]
           rest == SubSeq(stack, 1, Len(stack) - 1)
       IN  /\ f.i > Len(f.list)
           /\ IF rest = <<>>
              THEN /\ stack' = <<>>
                   /\ pc' = "roots"
                   /\ p' = p
              ELSE /\ stack' = [rest EXCEPT ![Len(rest)].i = @ + 1]
                   /\ UNCHANGED <<pc, p>>
    /\ UNCHANGED <<fs, outer, prefix, allFiles, archive, w, err, runs, wak>>

\* The loop of iterDirectory ends: the call returns nil to its caller.
IterReturn ==
    /\ pc = "walk"
    /\ LET f == stack[Len(stack)]
           rest == SubSeq(stack, 1, Len(stack) - 1)
       IN  /\ f.i > Len(f.list)
           /\ IF rest = <<>>
              THEN /\ stack' = <<>>
                   /\ pc' = "roots"
                   /\ p' = p + 1
              ELSE /\ stack' = [rest EXCEPT ![Len(rest)].i = @ + 1]
                   /\ UNCHANGED <<pc, p>>
    /\ UNCHANGED <<fs, outer, prefix, allFiles, archive, w, err, runs, wak>>

Next ==
    \/ OpenOutput
    \/ WalkRoot
    \/ PackReturn
    \/ IterRoot
    \/ IterChild
    \/ IterReturn

Spec == Init /\ [][Next]_vars

\* packDirectory runs in one goroutine that nothing suspends: a step that
\* can be taken is taken.
InitLinked ==
    /\ Init
    /\ \E k \in DOMAIN fs : fs[k].kind = "link"
    /\ Cardinality(Children(fs, thePath)) <= MaxLinked
    /\ excludePrefix = <<>>
    /\ excludeSuffix = <<>>
    /\ excludeRegexp = <<>>
    /\ Dir(outputP) = outside

SpecFair == InitLinked /\ [][Next]_vars /\ WF_vars(Next)

\* The command is run once more on the file system the run before left: a
\* new process, whose walker starts from nothing.
PackAgain ==
    /\ pc \in {"returned", "panic"}
    /\ Len(runs) < MaxRuns - 1
    /\ runs' = Append(runs, [i \in 1..Len(archive) |-> archive[i].name])
    /\ pc' = "open"
    /\ p' = 1
    /\ prefix' = <<>>
    /\ stack' = <<>>
    /\ allFiles' = {}
    /\ archive' = <<>>
    /\ w' = <<>>
    /\ err' = "nil"
    /\ wak' = "nil"
    /\ UNCHANGED <<fs, outer>>

NextRepeated == Next \/ PackAgain

SpecRepeated == Init /\ [][NextRepeated]_vars

\* After packDirectory has returned, the backend's compress is called once
\* more, directly, for a node whose entry has been written.
CompressWritten ==
    /\ pc = "returned"
    /\ ~ret.called
    /\ \E i \in 1..Len(archive) :
          LET e == archive[i]
              c == compress(e.name, e.src, [name |-> Base(e.src), mode |-> e.mode])
          IN  /\ ret' = [called |-> TRUE, added |-> c.added, err |-> c.err]
              /\ archive' = archive \o c.written
    /\ UNCHANGED <<fs, cfgVars, args, apc, trail, pc, p, prefix, stack,
                   allFiles, w, err, runs, wak>>

NextCompress == Next \/ CompressWritten

SpecCompress == Init /\ [][NextCompress]_vars

----------------------------------------------------------------------------
(* Vocabulary of the properties *)

\* The logical names written so far, as a set and in order.
Names == {archive[i].name : i \in 1..Len(archive)}
NameSeq == [i \in 1..Len(archive) |-> archive[i].name]

\* path is root or lies below root.
Under(root, path) ==
    /\ Len(root) <= Len(path)
    /\ SubSeq(path, 1, Len(root)) = root

\* The components of path below root.
Rel(root, path) == SubSeq(path, Len(root) + 1, Len(path))

RECURSIVE JoinSlash(_)
JoinSlash(names) ==
    IF names = <<>> THEN <<>>
    ELSE IF Len(names) = 1 THEN names[1]
    ELSE names[1] \o <<"/">> \o JoinSlash(Tail(names))

\* The logical name of a path below root: its components joined by slashes.
Logical(root, path) == JoinSlash(Rel(root, path))

\* The index of the root an entry was read from.
RootIndex(path) ==
    CHOOSE j \in 1..Len(includePath) : Under(includePath[j], path)

\* The exclusion policy as the specification words it.
RuleMatches(logical, base) ==
    \/ \E i \in 1..Len(excludePrefix) : HasPrefix(logical, excludePrefix[i])
    \/ \E i \in 1..Len(excludeSuffix) : HasSuffix(logical, excludeSuffix[i])
    \/ \E i \in 1..Len(excludeRegexp) : MatchString(excludeRegexp[i], base)

\* path and each of its ancestors below root pass the exclusion policy.
Passes(root, path) ==
    \A n \in (Len(root) + 1)..Len(path) :
        LET anc == SubSeq(path, 1, n)
        IN  ~RuleMatches(Logical(root, anc), Base(anc))

\* The regular files below root that the policy lets through, the output
\* file apart.
KeptFiles(root) ==
    {k \in DOMAIN fs :
        /\ Under(root, k) /\ k # root
        /\ fs[k].kind = "file"
        /\ k # outputP
        /\ Passes(root, k)}

KeptNames(root) == {Logical(root, k) : k \in KeptFiles(root)}

NoLinks == \A k \in DOMAIN fs : fs[k].kind # "link"

Succeeded == pc = "returned" /\ err = "nil"

----------------------------------------------------------------------------
(* Properties *)

\* C1: at every point of a packing operation, each logical name occurs at
\* most once among the entries written to the archive, however many roots
\* hold a file at that relative path.
C1_NoDuplicateNames ==
    \A i, j \in 1..Len(archive) :
        archive[i].name = archive[j].name => i = j

\* C1 witness: both roots hold a kept file at the same relative path, both
\* roots have been walked, and the name has been written.
C1_Witness ==
    /\ Succeeded
    /\ Len(includePath) = 2
    /\ \E n \in KeptNames(includePath[1]) \cap KeptNames(includePath[2]) :
          n \in Names

\* C2: when an earlier root holds a kept file at a relative path, no entry of
\* that logical name is read from a later root, and once packing has
\* succeeded the entry of that name is the one read from the earliest root
\* that holds it.
C2_EarlierRootWins ==
    /\ \A i \in 1..Len(archive) :
          \A j \in 1..Len(includePath) :
              archive[i].name \in KeptNames(includePath[j])
                  => RootIndex(archive[i].src) <= j
    /\ Succeeded =>
          \A j \in 1..Len(includePath) :
              \A k \in KeptFiles(includePath[j]) :
                  (\A h \in 1..(j - 1) :
                       Logical(includePath[j], k) \notin KeptNames(includePath[h]))
                  => \E i \in 1..Len(archive) :
                        /\ archive[i].name = Logical(includePath[j], k)
                        /\ archive[i].src = k

\* C2 witness: packing the roots A, B has succeeded, both hold a kept file
\* at one relative path, and the entry of that name was read from A.
C2_Witness ==
    /\ Succeeded
    /\ Len(includePath) = 2
    /\ \E k \in KeptFiles(includePath[1]) :
          /\ Logical(includePath[1], k) \in KeptNames(includePath[2])
          /\ \E i \in 1..Len(archive) : archive[i].src = k

\* C3: no entry is ever written for a file whose logical name starts with a
\* configured prefix or ends with a configured suffix, or whose base name
\* matches a configured regular expression, whichever root holds it.
C3_ExcludedNeverWritten ==
    \A i \in 1..Len(archive) :
        LET e == archive[i]
        IN  ~RuleMatches(Logical(includePath[RootIndex(e.src)], e.src),
                         Base(e.src))

\* C3 witness: a walk that wrote an entry has finished, and a file matched
\* by a rule lies in a directory the walk listed.
C3_Witness ==
    /\ Succeeded
    /\ archive # <<>>
    /\ \E j \in 1..Len(includePath) :
          \E k \in DOMAIN fs :
              /\ Under(includePath[j], k) /\ k # includePath[j]
              /\ fs[k].kind = "file"
              /\ Passes(includePath[j], Dir(k))
              /\ RuleMatches(Logical(includePath[j], k), Base(k))

\* C4: for one root without symbolic links, after a packing without errors
\* the logical names in the archive are exactly those of the regular files
\* below the root which, with all their ancestor directories, pass the
\* exclusion policy, the output file apart.
C4_SingleRootContent ==
    (Succeeded /\ Len(includePath) = 1 /\ NoLinks)
        => Names = KeptNames(includePath[1])

\* C4 witness: the root holds a.go, r and .g/c, the rules are the prefix "."
\* and the suffix ".go", and the finished archive holds r alone.
C4_Witness ==
    /\ Succeeded
    /\ includePath = <<thePath>>
    /\ NoLinks
    /\ {Join(thePath, nGo), Join(thePath, nR), Join(Join(thePath, nDotG), nC)}
           \subseteq DOMAIN fs
    /\ excludePrefix = <<<<".">>>>
    /\ excludeSuffix = <<<<".", "g", "o">>, <<".", "g">>>>
    /\ NameSeq = <<nR>>

\* C5: for several roots without symbolic links, after a packing without
\* errors the logical names in the archive are exactly the union over the
\* roots of the names of each root's kept files.
C5_UnionOfRoots ==
    (Succeeded /\ Len(includePath) > 1 /\ NoLinks)
        => Names = UNION {KeptNames(includePath[j]) : j \in 1..Len(includePath)}

\* C5 witness: the build root holding a comes first, the application root
\* holds r and the excluded a.go, and the archive holds exactly a and r.
C5_Witness ==
    /\ Succeeded
    /\ includePath = <<tmpdir, thePath>>
    /\ {k \in DOMAIN fs : Under(tmpdir, k)} = {tmpdir, Join(tmpdir, nA)}
    /\ {k \in DOMAIN fs : Under(thePath, k)}
           = {thePath, Join(thePath, nR), Join(thePath, nGo)}
    /\ excludeSuffix = <<<<".", "g", "o">>, <<".", "g">>>>
    /\ Names = {nA, nR}

\* A path that leads through a symbolic link, or is one.
ThroughLink(path) ==
    \E n \in 1..Len(path) :
        /\ SubSeq(path, 1, n) \in DOMAIN fs
        /\ fs[SubSeq(path, 1, n)].kind = "link"

\* Depth-first order with the siblings in ascending order of name: the
\* first component in which two paths differ decides.
PathLess(a, b) ==
    \E i \in 1..Len(a) :
        /\ i <= Len(b)
        /\ \A j \in 1..(i - 1) : a[j] = b[j]
        /\ StrLess(a[i], b[i])

\* C6: a run of the command on the trees, roots, rules and flags of an
\* earlier run writes the same sequence of logical names, whatever order
\* the operating system lists the directories in.
C6_Deterministic ==
    pc \in {"returned", "panic"}
        => \A r \in 1..Len(runs) : runs[r] = NameSeq

\* C6 witness: a second run has finished and has written the files of a
\* directory with several children.
C6_Witness ==
    /\ runs # <<>>
    /\ Succeeded
    /\ Len(archive) >= 3

\* C7: entries are written in the order of the walk: the entries of an
\* earlier root before those of a later root, and within one root in
\* depth-first order with the children of each directory in ascending order
\* of name.
C7_WalkOrder ==
    \A i, j \in 1..Len(archive) :
        i < j =>
            LET ri == RootIndex(archive[i].src)
                rj == RootIndex(archive[j].src)
            IN  \/ ri < rj
                \/ /\ ri = rj
                   /\ PathLess(Rel(includePath[ri], archive[i].src),
                               Rel(includePath[rj], archive[j].src))

\* C7 witness: the two files of the directory d were written, in order,
\* before the later sibling r of d.
C7_Witness ==
    /\ Succeeded
    /\ NameSeq = <<nD \o <<"/">> \o nDotH, nD \o <<"/">> \o nX, nR>>

\* C8: with skip-symlinks set, whatever follow-symlinks is, no entry is
\* written for a symbolic link or through one, and the walk enters no
\* directory through a symbolic link.
C8_SkipOverridesFollow ==
    ssym =>
        /\ \A i \in 1..Len(archive) : ~ThroughLink(archive[i].src)
        /\ \A n \in 1..Len(stack) : ~ThroughLink(stack[n].fPath)

\* C9: with follow-symlinks set and skip-symlinks clear, after a packing
\* without errors every kept link to an existing directory has been walked as
\* that directory: each file of the target that the policy lets through
\* under the link's name has an entry named by the link's logical name joined
\* with the file's path inside the target, and the link has no entry of its
\* own.
C9_DirectoryLinkFollowed ==
    (Succeeded /\ fsym /\ ~ssym) =>
        \A j \in 1..Len(includePath) :
            \A k \in DOMAIN fs :
                LET root == includePath[j]
                    t == Resolve(fs, <<>>, k, 0, TRUE)
                IN  (/\ Under(root, k)
                     /\ fs[k].kind = "link"
                     /\ Passes(root, k)
                     /\ t.err = "nil"
                     /\ fs[t.path].kind = "dir")
                    => /\ \A i \in 1..Len(archive) : archive[i].src # k
                       /\ \A m \in DOMAIN fs :
                             LET via == k \o Rel(t.path, m)
                             IN  (/\ Under(t.path, m)
                                  /\ fs[m].kind = "file"
                                  /\ Passes(root, via))
                                 => \E i \in 1..Len(archive) :
                                       /\ archive[i].name = Logical(root, via)
                                       /\ archive[i].src = via
                                       /\ archive[i].body = [k |-> "data", of |-> m]

\* C9 witness: the link l to the directory d was followed and d/x was
\* written under the name l/x.
C9_Witness ==
    /\ Succeeded /\ fsym /\ ~ssym
    /\ Join(thePath, nL) \in DOMAIN fs
    /\ fs[Join(thePath, nL)] = LinkNode(Join(thePath, nD))
    /\ (nL \o <<"/">> \o nX) \in Names

\* A link to a regular file.
FileLink(k) ==
    /\ k \in DOMAIN fs
    /\ fs[k].kind = "link"
    /\ LET t == Resolve(fs, <<>>, k, 0, TRUE)
       IN  t.err = "nil" /\ fs[t.path].kind = "file"

\* Every kept link to a file has an entry once packing has succeeded.
FileLinksWritten ==
    Succeeded =>
        \A j \in 1..Len(includePath) :
            \A k \in DOMAIN fs :
                (Under(includePath[j], k) /\ FileLink(k)
                 /\ Passes(includePath[j], k))
                => \E i \in 1..Len(archive) : archive[i].src = k

\* C10 as stated: with neither symlink flag set, a kept link to a file is
\* written, by either backend, as a symlink entry that carries the link
\* target and has no content bytes (stated for the links readlink can read).
C10_NoContentEitherBackend ==
    (~fsym /\ ~ssym) =>
        /\ FileLinksWritten
        /\ \A i \in 1..Len(archive) :
              (FileLink(archive[i].src)
               /\ Readlink(fs, archive[i].src).err = "nil") =>
                  /\ archive[i].mode = "link"
                  /\ archive[i].link = fs[archive[i].src].target
                  /\ archive[i].body = NoBody

\* C10 amended: with neither symlink flag set, a kept link to a file is
\* written as a symlink entry and the content of its target is not read.
\* The tar backend puts what readlink returned (nothing when readlink
\* failed) into the header and writes no content bytes; the zip backend
\* writes the link target as the content bytes, and writes none when
\* readlink failed.
C10_SymlinkEntry ==
    (~fsym /\ ~ssym) =>
        /\ FileLinksWritten
        /\ \A i \in 1..Len(archive) :
              LET e == archive[i]
                  rl == Readlink(fs, e.src)
              IN  FileLink(e.src) =>
                      /\ e.mode = "link"
                      /\ e.body.k # "data"
                      /\ IF format = zip
                         THEN /\ e.link = <<>>
                              /\ e.body = IF rl.err = "nil"
                                          THEN [k |-> "text", of |-> rl.link]
                                          ELSE NoBody
                         ELSE /\ e.link = rl.link
                              /\ e.body = NoBody

\* C10 witness: the zip backend has written the link l to the file r, with
\* the target as content.
C10_Witness ==
    /\ Succeeded /\ ~fsym /\ ~ssym
    /\ format = zip
    /\ \E i \in 1..Len(archive) :
          /\ archive[i].src = Join(thePath, nL)
          /\ archive[i].body = [k |-> "text", of |-> Join(thePath, nR)]

----------------------------------------------------------------------------
(* C11: the output file *)

\* C11: the archive never holds an entry sourced from its own output file:
\* no entry was written for the node at outputP, and no entry's content was
\* read from the output file.
C11_NeverPacksItself ==
    \A i \in 1..Len(archive) :
        /\ archive[i].src # outputP
        /\ ~(archive[i].body.k = "data" /\ archive[i].body.of = w)

----------------------------------------------------------------------------
(* C12: directories *)

\* The directories below a root, and the nodes below a directory.
DirsBelow(root) ==
    {k \in DOMAIN fs : Under(root, k) /\ k # root /\ fs[k].kind = "dir"}
Below(dir) == {k \in DOMAIN fs : Under(dir, k) /\ k # dir}

\* C12: no directory is ever written as an entry: every entry was written
\* for a file or a link, the node at the path it was read by is not a
\* directory, and no entry bears the logical name of a directory or of a
\* root.
C12_NoDirectoryEntry ==
    \A i \in 1..Len(archive) :
        /\ archive[i].mode \in {"file", "link"}
        /\ archive[i].name # <<>>
        /\ LET n == Resolve(fs, <<>>, archive[i].src, 0, FALSE)
           IN  n.err = "nil" /\ fs[n.path].kind # "dir"
        /\ \A j \in 1..Len(includePath) :
              \A d \in DirsBelow(includePath[j]) :
                  archive[i].name # Logical(includePath[j], d)

\* C12 witness: packing has succeeded and has written entries; the root
\* holds a directory that passes the policy, holds files, and all of them
\* are excluded: nothing was written for it or from it.
C12_Witness ==
    /\ Succeeded
    /\ archive # <<>>
    /\ \E d \in DirsBelow(includePath[1]) :
          /\ Passes(includePath[1], d)
          /\ Below(d) # {}
          /\ \A k \in Below(d) :
                fs[k].kind = "file" /\ ~Passes(includePath[1], k)
          /\ \A i \in 1..Len(archive) : ~Under(d, archive[i].src)

----------------------------------------------------------------------------
(* C13: a name that has been written *)

\* C13: a call of compress for a logical name that has already been written
\* returns wasAdded = false and no error, and writes no second entry.
C13_CompressSkipsWritten ==
    ret.called =>
        /\ ~ret.added
        /\ ret.err = "nil"
        /\ \A i, j \in 1..Len(archive) :
              archive[i].name = archive[j].name => i = j

\* The next child of the innermost loop is a regular file whose logical
\* name has been written.
NextChildWritten ==
    /\ pc = "walk"
    /\ LET f == stack[Len(stack)]
       IN  /\ f.i <= Len(f.list)
           /\ f.list[f.i].mode = "file"
           /\ virPath(Join(f.fPath, f.list[f.i].name)) \in allFiles

\* C13, amended: the walker does not call compress for a logical name that
\* has been written: the visit of such a file writes no entry, leaves
\* allFiles as it is, returns no error, and the loop goes on to the next
\* child.
C13_WalkerSkipsWritten ==
    [][NextChildWritten =>
          /\ archive' = archive
          /\ allFiles' = allFiles
          /\ err' = "nil"
          /\ pc' = "walk"
          /\ stack' = [stack EXCEPT ![Len(stack)].i = @ + 1]]_vars

\* C13 witness: the second root is being walked, the child just visited is
\* a regular file that passes the policy, its logical name had been written
\* from the first root, and no entry was written for it.
C13_Witness ==
    /\ pc = "walk"
    /\ p = 2
    /\ LET f == stack[Len(stack)]
       IN  /\ f.i > 1
           /\ LET c == f.list[f.i - 1]
                  path == Join(f.fPath, c.name)
              IN  /\ c.mode = "file"
                  /\ Passes(prefix, path)
                  /\ virPath(path) \in allFiles
                  /\ \E i \in 1..Len(archive) :
                        /\ archive[i].name = virPath(path)
                        /\ RootIndex(archive[i].src) = 1
                  /\ \A i \in 1..Len(archive) : archive[i].src # path

----------------------------------------------------------------------------
(* C14: the first error *)

\* The place of a node in the walk: the index of its root and its path
\* below the root.
Place(j, path) == [j |-> j, rel |-> Rel(includePath[j], path)]
PlaceOf(path) == Place(RootIndex(path), path)

\* The walk comes to the place a before the place b.
WalkBefore(a, b) ==
    \/ a.j < b.j
    \/ /\ a.j = b.j
       /\ \/ Len(a.rel) < Len(b.rel) /\ SubSeq(b.rel, 1, Len(a.rel)) = a.rel
          \/ PathLess(a.rel, b.rel)

\* An entry whose compress returned an error: the content could not be
\* opened, or the zip backend could not read the link.
FailedEntry(e) ==
    \/ e.body.k = "missing"
    \/ wak = "zipWalk" /\ e.mode = "link" /\ e.body.k = "none"

\* The nodes of a tree without links at which the walk fails, with the
\* error: a root that cannot be stat'ed, a directory that passes the policy
\* and cannot be listed, a file that passes the policy, was not written
\* from an earlier root and cannot be opened.
Failures ==
    {[at |-> Place(j, includePath[j]), err |-> Stat(fs, includePath[j]).err] :
        j \in {j \in 1..Len(includePath) :
                  Stat(fs, includePath[j]).err # "nil"}}
    \cup UNION {
        {[at |-> Place(j, k), err |-> "EACCES"] :
            k \in {k \in DOMAIN fs :
                      /\ Under(includePath[j], k)
                      /\ Passes(includePath[j], k)
                      /\ ~fs[k].ok
                      /\ k # outputP
                      /\ fs[k].kind = "file" =>
                            \A h \in 1..(j - 1) :
                                Logical(includePath[j], k)
                                    \notin KeptNames(includePath[h])}} :
        j \in 1..Len(includePath)}

\* C14: the walk stops at the node whose compress, listing or root stat
\* fails.  An entry whose compress failed is the last entry, packDirectory
\* has returned and returns that error.  In a tree without links no entry
\* is written for a node the walk comes to after a failing node, and
\* packDirectory returns nil when no node fails and else the error of the
\* first failing node, the output file being left in place.
C14_StopsAtFirstError ==
    /\ \A i \in 1..Len(archive) :
          FailedEntry(archive[i]) =>
              /\ i = Len(archive)
              /\ pc = "returned"
              /\ err # "nil"
              /\ err = IF archive[i].mode = "link"
                       THEN Readlink(fs, archive[i].src).err
                       ELSE OpenFile(fs, archive[i].src).err
    /\ NoLinks =>
          /\ \A f \in Failures :
                \A i \in 1..Len(archive) :
                    \/ WalkBefore(PlaceOf(archive[i].src), f.at)
                    \/ /\ PlaceOf(archive[i].src) = f.at
                       /\ FailedEntry(archive[i])
          /\ (pc = "returned" /\ w # <<>>) =>
                /\ w \in DOMAIN fs
                /\ IF Failures = {} THEN err = "nil"
                   ELSE \E f \in Failures :
                           /\ err = f.err
                           /\ \A g \in Failures :
                                 g = f \/ WalkBefore(f.at, g.at)

\* C14 witness: packDirectory has returned an error after it had written
\* an entry; a file that passes the policy lies after the failing node in
\* the walk, and nothing was written for it; the output file is in place.
C14_Witness ==
    /\ pc = "returned"
    /\ err # "nil"
    /\ NoLinks
    /\ w \in DOMAIN fs
    /\ \E i \in 1..Len(archive) : ~FailedEntry(archive[i])
    /\ \E f \in Failures :
          \E j \in 1..Len(includePath) :
              \E k \in KeptFiles(includePath[j]) :
                  /\ WalkBefore(f.at, Place(j, k))
                  /\ Logical(includePath[j], k) \notin Names

----------------------------------------------------------------------------
(* C15: termination *)

\* C15: packing terminates, whatever the tree, the links in it and the
\* flags: packDirectory returns (nil or an error), or the process aborts.
C15_Terminates == <>(pc \in {"returned", "panic"})

\* C15 witness: with follow-symlinks set the root holds a link to one of
\* its own ancestors that passes the policy, the walk has gone through the
\* link and written entries for what it found there, and packing is over.
C15_Witness ==
    /\ pc \in {"returned", "panic"}
    /\ fsym
    /\ \E k \in DOMAIN fs :
          /\ fs[k].kind = "link"
          /\ Under(fs[k].target, k)
          /\ Passes(includePath[1], k)
          /\ \E i \in 1..Len(archive) : Under(k, archive[i].src)

----------------------------------------------------------------------------
(* C16: a root that cannot be stat'ed *)

\* C16: when packDirectory returns the error of the stat of a root, the
\* output file has been neither created nor truncated: packDirectory has
\* not opened it.
C16_NoOutputOnBadRoot ==
    (/\ pc = "returned"
     /\ p <= Len(includePath)
     /\ stack = <<>>
     /\ Stat(fs, includePath[p]).err # "nil"
     /\ err = Stat(fs, includePath[p]).err)
        => w = <<>> /\ outputP \notin DOMAIN fs

----------------------------------------------------------------------------
(* packApp *)

\* What the walk assigns and packApp does not.
walkVars == <<p, prefix, stack, allFiles, archive, w, err, runs, wak>>

\* os.Getwd(): the command is run in the application directory.
curPath == thePath

\* path.Base(thePath)
appName == Base(thePath)

\* strings.Split(s, sep)
RECURSIVE Split(_, _)
Split(s, sep) ==
    IF \A i \in 1..Len(s) : s[i] # sep THEN <<s>>
    ELSE LET k == CHOOSE i \in 1..Len(s) :
                      s[i] = sep /\ \A j \in 1..(i - 1) : s[j] # sep
         IN  <<SubSeq(s, 1, k - 1)>> \o Split(SubSeq(s, k + 1, Len(s)), sep)

\* The loops over strings.Split(excludeP, ":") and strings.Split(excludeS,
\* ":"): the segments that are not empty.
Segments(s) == SelectSeq(Split(s, ":"), LAMBDA x : Len(x) > 0)

\* regexp.Compile, for the patterns the command is given here: literal
\* text with an optional leading ^ and trailing $; a parenthesis without
\* its partner is a syntax error.
Compile(src) ==
    LET bol == Len(src) > 0 /\ src[1] = "^"
        s1 == IF bol THEN Tail(src) ELSE src
        eol == Len(s1) > 0 /\ s1[Len(s1)] = "$"
        lit == IF eol THEN SubSeq(s1, 1, Len(s1) - 1) ELSE s1
    IN  IF \E i \in 1..Len(src) : src[i] \in {"(", ")"}
        THEN [err |-> "syntax",
              re |-> [lit |-> <<>>, bol |-> FALSE, eol |-> FALSE]]
        ELSE [err |-> "nil", re |-> [lit |-> lit, bol |-> bol, eol |-> eol]]

\* The loop over excludeR: the patterns that are not empty are compiled in
\* order, the first error ends the loop.
RECURSIVE CompileAll(_)
CompileAll(srcs) ==
    IF srcs = <<>> THEN [err |-> "nil", exr |-> <<>>]
    ELSE LET c == Compile(Head(srcs))
             rest == CompileAll(Tail(srcs))
         IN  IF Len(Head(srcs)) = 0 THEN rest
             ELSE IF c.err # "nil" THEN [err |-> c.err, exr |-> <<>>]
             ELSE IF rest.err # "nil" THEN rest
             ELSE [err |-> "nil", exr |-> <<c.re>> \o rest.exr]

\* Faulty variant of NormalFormat: the switch has no default.
NormalFormat_NoDefault(f) == f

\* The switch on format.
NormalFormat(f) == IF f = zip THEN zip ELSE targz

\* os.MkdirAll(path, 0755)
RECURSIVE MkdirAll(_, _)
MkdirAll(f, path) ==
    IF path = <<>> THEN [err |-> "nil", fs |-> f]
    ELSE IF path \in DOMAIN f
    THEN IF f[path].kind = "dir" THEN [err |-> "nil", fs |-> f]
         ELSE [err |-> "ENOTDIR", fs |-> f]
    ELSE LET up == MkdirAll(f, Dir(path))
         IN  IF up.err # "nil" THEN up
             ELSE [err |-> "nil", fs |-> (path :> DirNode) @@ up.fs]

\* os.RemoveAll(dir)
RemoveAll(f, dir) == [k \in {k \in DOMAIN f : ~Under(dir, k)} |-> f[k]]

\* The deferred function of packApp, run when packApp returns or panics.
Deferred(f) == RemoveAll(f, tmpdir)

\* asanaLogger.Log.Fatal and Fatalf: the message is logged and the process
\* exits at once with a non-zero status; packApp does not go on, and its
\* deferred function does not run.
Fatal(f) == [apc |-> "exit255", fs |-> f]

\* The formats, output directories, rules and patterns on the command line.
RawFormats == {zip, targz, <<>>, <<"t", "a", "r">>, <<"z", "i">>}
OutFlags ==
    {[abs |-> FALSE, path |-> <<>>],
     [abs |-> TRUE, path |-> outside],
     [abs |-> FALSE, path |-> <<<<"o">>>>]}
RuleFlags ==
    {[exp |-> <<>>, exs |-> <<>>],
     [exp |-> <<".">>, exs |-> <<".", "g", "o", ":">>]}
PatternFlags == {<<>>, << <<>>, <<"^", "x">> >>, << <<"^", "x">>, <<"(">> >>}

\* The command lines of the pack command, with what the environment will
\* answer: whether the temporary directory can be made, whether the build
\* succeeds.
AppArgs ==
    {[f |-> f, o |-> o, exp |-> r.exp, exs |-> r.exs, exr |-> x,
      b |-> b[1], buildOK |-> b[2], tmpOK |-> t, fs |-> l, ss |-> FALSE] :
        f \in RawFormats, o \in OutFlags, r \in RuleFlags, x \in PatternFlags,
        b \in {<<FALSE, TRUE>>, <<TRUE, TRUE>>, <<TRUE, FALSE>>},
        t \in BOOLEAN, l \in BOOLEAN}

\* The file systems the pack command is run on: the application path is
\* missing, a file, or a directory; with -fs the directory holds a link to
\* itself.
AppFiles(a) ==
    LET always == {<<outside, DirNode>>}
        l == <<Join(thePath, nL), LinkNode(Join(thePath, nL))>>
    IN  IF a.fs
        THEN {Tree(always \cup {<<thePath, DirNode>>, l} \cup t) :
                 t \in AppTrees(AppR, {{}}, {{}}, {{}}, {{}})}
        ELSE {Tree(always), Tree(always \cup {<<thePath, FileNode>>})}
             \cup {Tree(always \cup {<<thePath, DirNode>>} \cup t) :
                      t \in AppTrees(AppR, {{}}, {{}},
                                     {d \in AppD : Cardinality(d) \in {0, 2}},
                                     {{}})}

InitApp ==
    /\ args \in AppArgs
    /\ fs \in AppFiles(args)
    /\ fsym = args.fs
    /\ ssym = args.ss
    /\ format = args.f
    /\ outputP = args.o.path
    /\ includePath = <<>>
    /\ excludePrefix = <<>>
    /\ excludeSuffix = <<>>
    /\ excludeRegexp = <<>>
    /\ pc = "idle"
    /\ p = 1
    /\ prefix = <<>>
    /\ stack = <<>>
    /\ allFiles = {}
    /\ archive = <<>>
    /\ w = <<>>
    /\ err = "nil"
    /\ runs = <<>>
    /\ wak = "nil"
    /\ ret = NoCall
    /\ apc = "start"
    /\ trail = <<>>

\* packApp stats the application path.
AppStat ==
    /\ apc = "start"
    /\ trail' = Append(trail, "os.Stat thePath")
    /\ LET st == Stat(fs, thePath)
       IN  IF IsNotExist(st.err) \/ (st.err = "nil" /\ st.fi.mode # "dir")
           THEN apc' = Fatal(fs).apc /\ fs' = Fatal(fs).fs
           ELSE IF st.err # "nil"
           THEN apc' = "crashed" /\ fs' = fs
           ELSE apc' = "mkdir" /\ fs' = fs
    /\ UNCHANGED <<cfgVars, pc, walkVars, ret, args>>

\* packApp makes its temporary directory, ignores the error, and defers
\* its removal.
AppMkdir ==
    /\ apc = "mkdir"
    /\ IF args.tmpOK /\ tmpdir \notin DOMAIN fs
       THEN /\ fs' = (tmpdir :> DirNode) @@ fs
            /\ trail' = Append(trail, "os.Mkdir tmpdir")
       ELSE UNCHANGED <<fs, trail>>
    /\ apc' = "build"
    /\ UNCHANGED <<cfgVars, pc, walkVars, ret, args>>

\* With -b, packApp runs go build, which writes the binary into the
\* temporary directory.
AppBuild ==
    /\ apc = "build"
    /\ IF ~args.b
       THEN /\ apc' = "output"
            /\ UNCHANGED <<fs, trail>>
       ELSE /\ trail' = Append(trail, "go build")
            /\ IF args.buildOK /\ tmpdir \in DOMAIN fs
               THEN /\ fs' = (Join(tmpdir, appName) :> FileNode) @@ fs
                    /\ apc' = "output"
               ELSE apc' = Fatal(fs).apc /\ fs' = Fatal(fs).fs
    /\ UNCHANGED <<cfgVars, pc, walkVars, ret, args>>

\* packApp settles the format, the name of the output file and the output
\* directory, which it makes when the stat of it fails.
AppOutput ==
    /\ apc = "output"
    /\ format' = NormalFormat(format)
    /\ LET outputN == appName \o <<".">> \o format'
           dir == IF outputP = <<>> \/ ~args.o.abs
                  THEN curPath \o outputP ELSE outputP
           made == MkdirAll(fs, dir)
       IN  IF Stat(fs, dir).err = "nil"
           THEN /\ outputP' = Join(dir, outputN)
                /\ trail' = Append(trail, "os.Stat outputP")
                /\ apc' = "rules"
                /\ fs' = fs
           ELSE /\ trail' = trail \o <<"os.Stat outputP", "os.MkdirAll outputP">>
                /\ IF made.err # "nil"
                   THEN /\ apc' = Fatal(fs).apc
                        /\ fs' = Fatal(fs).fs
                        /\ outputP' = dir
                   ELSE /\ apc' = "rules"
                        /\ fs' = made.fs
                        /\ outputP' = Join(dir, outputN)
    /\ UNCHANGED <<includePath, excludePrefix, excludeSuffix, excludeRegexp,
                   fsym, ssym, pc, walkVars, ret, args>>

\* Faulty variant of AppRules: packDirectory is called with the patterns
\* that compiled although one did not.
AppRules_PacksAnyway ==
    /\ apc = "rules"
    /\ apc' = "packDirectory"
    /\ fs' = fs
    /\ trail' = trail \o <<"regexp.Compile", "packDirectory">>
    /\ excludePrefix' = Segments(args.exp)
    /\ excludeSuffix' = Segments(args.exs)
    /\ excludeRegexp' = CompileAll(args.exr).exr
    /\ includePath' = <<tmpdir, thePath>>
    /\ pc' = "open"
    /\ UNCHANGED <<fsym, ssym, format, outputP, walkVars, ret, args>>

\* packApp splits the prefix and suffix rules, compiles the patterns, and
\* calls packDirectory on the temporary directory and the application path.
AppRules ==
    /\ apc = "rules"
    /\ LET c == CompileAll(args.exr)
       IN  IF c.err # "nil"
           THEN /\ apc' = Fatal(fs).apc
                /\ fs' = Fatal(fs).fs
                /\ trail' = Append(trail, "regexp.Compile")
                /\ UNCHANGED <<includePath, excludePrefix, excludeSuffix,
                               excludeRegexp, pc>>
           ELSE /\ apc' = "packDirectory"
                /\ fs' = fs
                /\ trail' = trail \o <<"regexp.Compile", "packDirectory">>
                /\ excludePrefix' = Segments(args.exp)
                /\ excludeSuffix' = Segments(args.exs)
                /\ excludeRegexp' = c.exr
                /\ includePath' = <<tmpdir, thePath>>
                /\ pc' = "open"
    /\ UNCHANGED <<fsym, ssym, format, outputP, walkVars, ret, args>>

\* packDirectory has returned: its error is fatal; without one packApp
\* returns 0 and its deferred function runs.
AppReturn ==
    /\ apc = "packDirectory"
    /\ pc = "returned"
    /\ IF err # "nil"
       THEN apc' = Fatal(fs).apc /\ fs' = Fatal(fs).fs
       ELSE apc' = "exit0" /\ fs' = Deferred(fs)
    /\ UNCHANGED <<cfgVars, pc, walkVars, ret, args, trail>>

\* The walk has panicked: the deferred function runs while the panic
\* unwinds packApp, then the process ends.
AppPanic ==
    /\ apc = "packDirectory"
    /\ pc = "panic"
    /\ apc' = "crashed"
    /\ fs' = Deferred(fs)
    /\ UNCHANGED <<cfgVars, pc, walkVars, ret, args, trail>>

NextApp ==
    \/ AppStat
    \/ AppMkdir
    \/ AppBuild
    \/ AppOutput
    \/ AppRules
    \/ Next
    \/ AppReturn
    \/ AppPanic

SpecApp == InitApp /\ [][NextApp]_vars

----------------------------------------------------------------------------
(* C17: when the patterns are compiled *)

\* The command has ended in the fatal error of a pattern that does not
\* compile.
CompileFailed ==
    /\ apc = "exit255"
    /\ trail # <<>>
    /\ trail[Len(trail)] = "regexp.Compile"

\* What packApp has done so far.
Done == {trail[i] : i \in 1..Len(trail)}

\* C17: the patterns are compiled before any access to the file system:
\* when a pattern fails to compile the command ends without having stat'ed
\* the application path, made its temporary directory, run the build or
\* stat'ed or made the output directory.
C17_CompiledFirst ==
    CompileFailed =>
        /\ trail = <<"regexp.Compile">>
        /\ tmpdir \notin DOMAIN fs

\* C17, amended: the patterns are compiled before packDirectory is called.
\* When a pattern fails to compile the command ends with no output file
\* created and no root walked, after it has stat'ed the application path,
\* made its temporary directory (which stays), run the build if asked to,
\* and stat'ed or made the output directory; and packDirectory only ever
\* runs with every pattern compiled.
C17_CompiledBeforePacking ==
    /\ CompileFailed =>
          /\ pc = "idle"
          /\ w = <<>>
          /\ archive = <<>>
          /\ outputP \notin DOMAIN fs
          /\ trail[1] = "os.Stat thePath"
          /\ "os.Stat outputP" \in Done
          /\ "packDirectory" \notin Done
          /\ args.b => "go build" \in Done
          /\ args.tmpOK => "os.Mkdir tmpdir" \in Done /\ tmpdir \in DOMAIN fs
    /\ pc # "idle" =>
          /\ CompileAll(args.exr).err = "nil"
          /\ excludeRegexp = CompileAll(args.exr).exr
          /\ "regexp.Compile" \in Done

\* C17 witness: the command was given a pattern that does not compile, and
\* has ended in that error after the build has written the binary and the
\* output directory has been made.
C17_Witness ==
    /\ CompileFailed
    /\ Join(tmpdir, appName) \in DOMAIN fs
    /\ "os.MkdirAll outputP" \in Done

----------------------------------------------------------------------------
(* C18: the temporary directory *)

\* The command has ended: packApp has returned, the process has exited in
\* a fatal error, or it has panicked.
Ended == apc \in {"exit0", "exit255", "crashed"}

\* C18: once the temporary build directory has been made it is removed on
\* every way out of the command: when packing succeeds, when the walk or a
\* write to the archive fails, when the build fails.
C18_TmpdirRemoved ==
    (Ended /\ "os.Mkdir tmpdir" \in Done) => tmpdir \notin DOMAIN fs

----------------------------------------------------------------------------
(* C19: the format *)

\* C19: the format "zip" selects the zip backend and the output file
\* <app>.zip; every other value, the empty one included, selects the
\* tar+gzip backend and the output file <app>.tar.gz.
C19_FormatSelectsBackend ==
    LET isZip == args.f = <<"z", "i", "p">>
        outputN == IF isZip THEN appName \o <<".", "z", "i", "p">>
                   ELSE appName \o <<".", "t", "a", "r", ".", "g", "z">>
    IN  /\ apc \in {"rules", "packDirectory", "exit0", "crashed"}
              => Base(outputP) = outputN
        /\ wak # "nil" =>
              /\ wak = IF isZip THEN "zipWalk" ELSE "tarWalk"
              /\ Base(w) = outputN

\* C19 witness: the command was given an empty format, or one that is
\* neither zip nor tar.gz, and has packed the application with the tar
\* backend.
C19_Witness ==
    /\ apc = "exit0"
    /\ args.f \notin {zip, targz}
    /\ wak = "tarWalk"
    /\ archive # <<>>

----------------------------------------------------------------------------
(* C20: the root *)

\* The root about to be walked is a directory that can be listed.
RootListable ==
    /\ pc = "root"
    /\ includePath[p] \in DOMAIN fs
    /\ fs[includePath[p]].kind = "dir"
    /\ fs[includePath[p]].ok

\* C20: the root of a walk is never excluded, whatever the rules and
\* whether or not they match the root's own name: walkRoot lists the
\* children of the root, all of them, and the loop over them begins.
C20_RootNeverExcluded ==
    [][RootListable =>
          /\ pc' = "walk"
          /\ Len(stack') = 1
          /\ stack'[1].fPath = includePath[p]
          /\ stack'[1].i = 1
          /\ {stack'[1].list[n].name : n \in 1..Len(stack'[1].list)}
                = {Base(k) : k \in Children(fs, includePath[p])}]_vars

\* C20 witness: a rule matches the base name of the root, the children of
\* the root are being iterated, and an entry has been written for one of
\* them.
C20_Witness ==
    /\ pc = "walk"
    /\ RuleMatches(<<>>, Base(includePath[p]))
    /\ stack[1].fPath = includePath[p]
    /\ \E i \in 1..Len(archive) :
          Under(includePath[p], archive[i].src)

----------------------------------------------------------------------------
(* Direct calls of the walker's predicates *)

\* The logical names of the nodes of the roots, and the empty name.
LogicalNames ==
    {<<>>} \cup UNION {{Logical(includePath[j], k) :
                          k \in {k \in DOMAIN fs : Under(includePath[j], k)}} :
                      j \in 1..Len(includePath)}

\* After packDirectory has returned, isExclude is called directly, on the
\* walker as the walk left it.
IsExcludeCall ==
    /\ pc = "returned"
    /\ ~ret.called
    /\ \E name \in LogicalNames :
          ret' = [called |-> TRUE, fn |-> "isExclude", arg |-> name,
                  val |-> isExclude(name)]
    /\ UNCHANGED <<fs, cfgVars, args, apc, trail, pc, walkVars>>

\* After packDirectory has returned, isEmpty is called directly on the
\* last root walked or on a directory below it, on the walker as the walk
\* left it.
IsEmptyCall ==
    /\ pc = "returned"
    /\ ~ret.called
    /\ \E j \in 1..Len(includePath) : prefix = includePath[j]
    /\ \E dir \in {prefix} \cup DirsBelow(prefix) :
          ret' = [called |-> TRUE, fn |-> "isEmpty", arg |-> dir,
                  val |-> isEmpty(dir)]
    /\ UNCHANGED <<fs, cfgVars, args, apc, trail, pc, walkVars>>

NextCalls == Next \/ IsExcludeCall \/ IsEmptyCall

SpecCalls == Init /\ [][NextCalls]_vars

----------------------------------------------------------------------------
(* C21: the empty logical name *)

\* C21: isExclude returns false for the empty logical name, under every
\* rule set.
C21_EmptyNameNotExcluded ==
    (ret.called /\ ret.fn = "isExclude" /\ ret.arg = <<>>) => ~ret.val

\* C21, amended: isExclude returns true for the empty logical name under
\* every rule set, and for every other name exactly when a prefix rule or a
\* suffix rule matches it; the walker does not consult it for the empty
\* name: the root whose children are being iterated has the empty logical
\* name.
C21_EmptyNameNotConsulted ==
    /\ (ret.called /\ ret.fn = "isExclude") =>
          ret.val =
              \/ ret.arg = <<>>
              \/ \E i \in 1..Len(excludePrefix) :
                    HasPrefix(ret.arg, excludePrefix[i])
              \/ \E i \in 1..Len(excludeSuffix) :
                    HasSuffix(ret.arg, excludeSuffix[i])
    /\ pc = "walk" =>
          /\ virPath(stack[1].fPath) = <<>>
          /\ isExclude(virPath(stack[1].fPath))

\* C21 witness: packing has succeeded and has written entries from the
\* roots, and isExclude, called for the empty logical name, has returned
\* true.
C21_Witness ==
    /\ Succeeded
    /\ archive # <<>>
    /\ ret.called
    /\ ret.fn = "isExclude"
    /\ ret.arg = <<>>
    /\ ret.val

----------------------------------------------------------------------------
(* C22: who is skipped *)

\* The child the innermost loop visits next: its path, the FileInfo of the
\* listing, its logical name.
AtChild == pc = "walk" /\ stack[Len(stack)].i <= Len(stack[Len(stack)].list)
NextInfo == stack[Len(stack)].list[stack[Len(stack)].i]
NextPath == Join(stack[Len(stack)].fPath, NextInfo.name)

\* The directory at a path can be opened and listed.
Listable(path) ==
    LET r == Resolve(fs, <<>>, path, 0, TRUE)
    IN  r.err = "nil" /\ fs[r.path].kind = "dir" /\ fs[r.path].ok

\* The visit of the next child skips it: nothing is written, nothing is
\* entered, no error is returned, the loop goes on to the sibling.
SkipsNext ==
    /\ archive' = archive
    /\ allFiles' = allFiles
    /\ pc' = "walk"
    /\ err' = err
    /\ stack' = [stack EXCEPT ![Len(stack)].i = @ + 1]

\* C22: the walker skips a node with a non-empty logical name if and only
\* if a prefix rule matches the start of its logical name, a suffix rule
\* the end of its logical name, or a pattern its base name.  A node a rule
\* matches is skipped whatever it is; a regular file no rule matches, that
\* is not the output file and whose name has not been written, is written
\* under its logical name, and a directory no rule matches is listed.
C22_SkipsIffRuleMatches ==
    [][AtChild =>
          IF RuleMatches(virPath(NextPath), NextInfo.name)
          THEN SkipsNext
          ELSE /\ (/\ NextInfo.mode = "file"
                   /\ NextPath # outputP
                   /\ virPath(NextPath) \notin allFiles)
                     => /\ Len(archive') = Len(archive) + 1
                        /\ archive'[Len(archive')].name = virPath(NextPath)
                        /\ archive'[Len(archive')].src = NextPath
               /\ (NextInfo.mode = "dir" /\ Listable(NextPath))
                     => /\ Len(stack') = Len(stack) + 1
                        /\ stack'[Len(stack')].fPath = NextPath]_vars

----------------------------------------------------------------------------
(* C23: pruning *)

\* The proper ancestors of a path below its root.
AncestorsBelow(root, path) ==
    {SubSeq(path, 1, n) : n \in (Len(root) + 1)..(Len(path) - 1)}

\* C23: an excluded directory prunes its subtree: every written entry has
\* only ancestors no rule matches, and every directory whose children are
\* being iterated passes the policy with all its ancestors.
C23_ExcludedDirPruned ==
    /\ \A i \in 1..Len(archive) :
          LET root == includePath[RootIndex(archive[i].src)]
          IN  \A anc \in AncestorsBelow(root, archive[i].src) :
                  ~RuleMatches(Logical(root, anc), Base(anc))
    /\ \A n \in 1..Len(stack) : Passes(includePath[p], stack[n].fPath)

\* C23 witness: packing has succeeded and has written entries; a directory
\* of the root is matched by a rule and holds a file whose own logical name
\* and base name no rule matches: nothing was written from the directory.
C23_Witness ==
    /\ Succeeded
    /\ archive # <<>>
    /\ \E d \in DirsBelow(includePath[1]) :
          /\ RuleMatches(Logical(includePath[1], d), Base(d))
          /\ \E k \in Below(d) :
                /\ fs[k].kind = "file"
                /\ ~RuleMatches(Logical(includePath[1], k), Base(k))
          /\ \A i \in 1..Len(archive) : ~Under(d, archive[i].src)

----------------------------------------------------------------------------
(* C24: links to nothing *)

\* The next child is a symbolic link that is followed and whose target does
\* not exist.
Dangling ==
    /\ fsym
    /\ NextInfo.mode = "link"
    /\ IsNotExist(Stat(fs, NextPath).err)

\* C24: with follow-symlinks on, a symbolic link whose target does not
\* exist is ignored without error: the visit writes no entry, returns no
\* error and the loop goes on with the next sibling.
C24_DanglingLinkIgnored ==
    [][(AtChild /\ Dangling) => SkipsNext]_vars

\* C24 witness: follow-symlinks is on, the root holds a link to a path
\* where nothing exists, and packing has succeeded, having written a file
\* that is visited after the link and nothing under the link's name.
C24_Witness ==
    /\ Succeeded
    /\ fsym
    /\ \E k \in DOMAIN fs :
          /\ fs[k].kind = "link"
          /\ Dir(k) = includePath[1]
          /\ IsNotExist(Stat(fs, k).err)
          /\ \A i \in 1..Len(archive) : archive[i].src # k
          /\ \E i \in 1..Len(archive) :
                /\ Dir(archive[i].src) = includePath[1]
                /\ StrLess(Base(k), Base(archive[i].src))

----------------------------------------------------------------------------
(* C25: links that cannot be followed *)

\* The next child is a symbolic link that is followed and whose stat fails
\* with an error other than not-exist.
StatFails ==
    /\ fsym
    /\ NextInfo.mode = "link"
    /\ Stat(fs, NextPath).err \notin {"nil", "ENOENT"}

\* C25: with follow-symlinks on, when the stat through a symbolic link
\* fails with an error other than not-exist, the walk is aborted and
\* packDirectory returns that error; the walker does not crash.
C25_StatErrorReturned ==
    [][(AtChild /\ StatFails) =>
          /\ pc' = "returned"
          /\ err' = Stat(fs, NextPath).err]_vars

----------------------------------------------------------------------------
(* C26: empty directories *)

\* What remains of a directory once the children a rule matches, the
\* symbolic links that are skipped and the sub-directories of which nothing
\* remains are discarded.
RECURSIVE Remains(_)
Remains(dir) ==
    {k \in Children(fs, dir) :
        /\ ~RuleMatches(virPath(k), Base(k))
        /\ ~(fs[k].kind = "link" /\ ssym)
        /\ ~(fs[k].kind = "dir" /\ Remains(k) = {})}

\* C26: isEmpty(dir) is true exactly when nothing remains of dir; a
\* directory from under which the walker has written an entry is not
\* reported empty.
C26_EmptyIffNothingRemains ==
    (ret.called /\ ret.fn = "isEmpty") =>
        /\ ret.val = (Remains(ret.arg) = {})
        /\ ret.val => \A i \in 1..Len(archive) : ~Under(ret.arg, archive[i].src)

----------------------------------------------------------------------------
(* C27: the rules and followed links *)

\* The next child is a symbolic link that is followed and whose stat
\* succeeds; the node the link leads to.
Followed ==
    /\ fsym
    /\ NextInfo.mode = "link"
    /\ Stat(fs, NextPath).err = "nil"
TargetOf(path) == Resolve(fs, <<>>, path, 0, TRUE).path

\* C27: with follow-symlinks on, whether a symbolic link is excluded is
\* decided from the link's own logical name and base name: a link a rule
\* matches is skipped; a link no rule matches is followed, whatever the
\* rules say of its target: a target file is written under the link's
\* logical name, a target directory is listed under the link's path.
C27_LinkNameDecides ==
    [][(AtChild /\ Followed) =>
          IF RuleMatches(virPath(NextPath), NextInfo.name)
          THEN SkipsNext
          ELSE /\ (/\ fs[TargetOf(NextPath)].kind = "file"
                   /\ NextPath # outputP
                   /\ virPath(NextPath) \notin allFiles)
                     => /\ Len(archive') = Len(archive) + 1
                        /\ archive'[Len(archive')].name = virPath(NextPath)
                        /\ archive'[Len(archive')].src = NextPath
               /\ (fs[TargetOf(NextPath)].kind = "dir" /\ Listable(NextPath))
                     => /\ Len(stack') = Len(stack) + 1
                        /\ stack'[Len(stack')].fPath = NextPath]_vars

\* C27 witness: follow-symlinks is on; the link l, which no rule matches,
\* leads to a directory that a rule matches; packing has succeeded, has
\* written a file of that directory under the link's logical name and
\* nothing read by the directory's own path.
C27_Witness ==
    /\ Succeeded
    /\ fsym
    /\ \E k \in DOMAIN fs :
          /\ fs[k].kind = "link"
          /\ Dir(k) = includePath[1]
          /\ ~RuleMatches(Logical(includePath[1], k), Base(k))
          /\ Stat(fs, k).err = "nil"
          /\ fs[TargetOf(k)].kind = "dir"
          /\ Under(includePath[1], TargetOf(k))
          /\ RuleMatches(Logical(includePath[1], TargetOf(k)),
                         Base(TargetOf(k)))
          /\ \E i \in 1..Len(archive) :
                /\ Under(k, archive[i].src)
                /\ archive[i].name = Logical(includePath[1], archive[i].src)
          /\ \A i \in 1..Len(archive) : ~Under(TargetOf(k), archive[i].src)

----------------------------------------------------------------------------
(* C28: the set of written names *)

\* No entry of the archive comes from a compress call that failed.
NoFailure == \A i \in 1..Len(archive) : ~FailedEntry(archive[i])

\* C28: allFiles holds only logical names that have been written; as long
\* as no compress call has failed it holds all of them; it only grows, and
\* is not emptied from one root to the next.
C28_AllFilesTracksWritten ==
    [][/\ allFiles \subseteq allFiles'
       /\ allFiles' \subseteq Names'
       /\ NoFailure' => allFiles' = Names']_vars

\* C28 witness: two roots have been packed with success, and allFiles
\* holds a name written from the first and a name written from the second.
C28_Witness ==
    /\ Succeeded
    /\ Len(includePath) = 2
    /\ allFiles = Names
    /\ \E i, j \in 1..Len(archive) :
          /\ Under(includePath[1], archive[i].src)
          /\ Under(includePath[2], archive[j].src)
          /\ {archive[i].name, archive[j].name} \subseteq allFiles

----------------------------------------------------------------------------
(* C29: the two backends *)

\* packDirectory is run once more with the other format, on the same
\* roots, rules, flags and output file; ret keeps what the first run wrote
\* and how it ended.
PackOther ==
    /\ pc \in {"returned", "panic"}
    /\ ~ret.called
    /\ ret' = [called |-> TRUE, fn |-> "packDirectory", names |-> NameSeq,
               pc |-> pc, err |-> err]
    /\ format' = IF format = zip THEN targz ELSE zip
    /\ pc' = "open"
    /\ p' = 1
    /\ prefix' = <<>>
    /\ stack' = <<>>
    /\ allFiles' = {}
    /\ archive' = <<>>
    /\ w' = <<>>
    /\ err' = "nil"
    /\ wak' = "nil"
    /\ UNCHANGED <<fs, includePath, excludePrefix, excludeSuffix,
                   excludeRegexp, fsym, ssym, outputP, args, apc, trail, runs>>

NextBackends == Next \/ PackOther

SpecBackends == Init /\ [][NextBackends]_vars

\* C29: on the same trees, rules, flags and faults, the tar backend and the
\* zip backend write the same sequence of logical names and end alike: both
\* return nil or both return the same error.
C29_BackendsInterchangeable ==
    (ret.called /\ ret.fn = "packDirectory" /\ pc \in {"returned", "panic"})
        => /\ ret.names = NameSeq
           /\ ret.pc = pc
           /\ ret.err = err

----------------------------------------------------------------------------
(* C30: links that are not followed *)

\* A link to a directory.
DirLink(k) ==
    /\ k \in DOMAIN fs
    /\ fs[k].kind = "link"
    /\ Stat(fs, k).err = "nil"
    /\ fs[TargetOf(k)].kind = "dir"

\* C30: with follow-symlinks off the walker never descends through a
\* symbolic link: every proper ancestor of a written entry's path is a
\* directory, no link is listed, an entry read from a link is a symlink
\* entry and there is none when skip-symlinks is on; once packing has
\* succeeded with skip-symlinks off, each link to a directory that the
\* rules let through has exactly one entry.
C30_NoDescentThroughLink ==
    ~fsym =>
        /\ \A i \in 1..Len(archive) :
              /\ \A n \in 1..(Len(archive[i].src) - 1) :
                    /\ SubSeq(archive[i].src, 1, n) \in DOMAIN fs
                    /\ fs[SubSeq(archive[i].src, 1, n)].kind = "dir"
              /\ fs[archive[i].src].kind = "link" =>
                    ~ssym /\ archive[i].mode = "link"
        /\ \A n \in 1..Len(stack) : ~ThroughLink(stack[n].fPath)
        /\ (Succeeded /\ ~ssym) =>
              \A j \in 1..Len(includePath) :
                  \A k \in DOMAIN fs :
                      (Under(includePath[j], k) /\ DirLink(k)
                       /\ Passes(includePath[j], k))
                      => Cardinality({i \in 1..Len(archive) :
                                        Under(k, archive[i].src)}) = 1

\* C30 witness: both symlink flags are off and packing has succeeded; the
\* link l leads to a directory that holds a file; the file has been written
\* under its own logical name and the link as a symlink entry.
C30_Witness ==
    /\ Succeeded
    /\ ~fsym /\ ~ssym
    /\ \E k \in DOMAIN fs :
          /\ DirLink(k)
          /\ \E i \in 1..Len(archive) :
                archive[i].src = k /\ archive[i].mode = "link"
          /\ \E i \in 1..Len(archive) :
                /\ Under(TargetOf(k), archive[i].src)
                /\ archive[i].mode = "file"

====
